---------------------------- MODULE Spec2Model ----------------------------
(***************************************************************************)
(* Model of the sticky-note widget (src/sticky_note.py): the note store,   *)
(* the note controller with its debounced autosave timer, the mode toggle  *)
(* between Markdown source and rendered view, and the recovery pipeline    *)
(* that turns the rendered document back into Markdown.                    *)
(*                                                                         *)
(* Text is a non-empty sequence of lines (the text split at newlines); the *)
(* empty string is the one empty line.  A line is one token of a small     *)
(* alphabet.  The                                                          *)
(* rendered document is a sequence of blocks: a paragraph carries one      *)
(* line, a code block carries the lines between its fences.                *)
(***************************************************************************)
EXTENDS Integers, Sequences, FiniteSets, TLC

(* ------------------------------ bounds -------------------------------- *)

\* Identifiers the uuid4 generator can hand out in one run.
MaxIds == 2

\* Records held by the store at one time.
MaxNotes == 2

\* The last second whose time stamp is told apart: datetime.now() reads
\* MaxClock at every later instant.
MaxClock == 1

(* --------------------------- program constants ------------------------- *)

\* save_timer.setInterval(2000): the debounce delay, in seconds.
SaveInterval == 2

\* current_note_id = None; settings without 'last_note_id'.
NoId == 0

NoteIds == 1..MaxIds

(* ------------------------------ strings -------------------------------- *)

\* str.strip() on the tokens of the alphabet.
StrStrip(str) ==
    CASE str = " " -> ""
      [] str = " U " -> "U"
      [] str = "  x" -> "x"
      [] OTHER -> str

\* str.lstrip(' ') on the tokens of the alphabet.
StrLStrip(str) ==
    CASE str = " " -> ""
      [] str = " U " -> "U "
      [] str = "  x" -> "x"
      [] OTHER -> str

\* The fence marker line (three backquotes), written with apostrophes.
FenceMark == "'''"

\* The stripped line is empty: the line is blank.
IsBlank(line) == StrStrip(line) = ""

\* The line, stripped, starts with the fence marker; the closing test (the
\* stripped line is exactly the marker) coincides with it on this alphabet,
\* whose only fence token is the bare marker.
IsFence(line) == StrStrip(line) = FenceMark

\* The indent pattern of the line loop: one to four leading spaces followed
\* by something that is no list marker.
HasSpuriousIndent(line) == line \in {" ", " U ", "  x"}

EmptyText == <<"">>

\* Checklist lines and a blockquote line of the source.
CheckedItem == "- [x] T"
UncheckedItem == "- [ ] T"
QuoteLine == "> q"

\* What the rendered document shows for them: the glyph of a checked box
\* (written (v)) or of an unchecked box (written (o)) before the text of
\* the item, and the one-row table that stands for a blockquote.
CheckedText == "(v) T"
UncheckedText == "(o) T"
QuoteText == "|q"

\* What toMarkdown writes for them: a list item that starts with the link
\* of the box, and the row of the table followed by its rule.
CheckedDraft == "- [(v)](checkbox:0) T"
UncheckedDraft == "- [(o)](checkbox:0) T"
QuoteRow == "|||q|"
QuoteRule == "|||-|"

RECURSIVE Flatten(_)
\* The parts joined by newlines and split again: the lines of all parts.
Flatten(parts) ==
    IF parts = <<>> THEN <<>> ELSE Head(parts) \o Flatten(Tail(parts))

\* text.strip() on a sequence of lines: leading and trailing blank lines go,
\* the first line loses its leading and the last its trailing whitespace.
TextStrip(lines) ==
    LET nb == {i \in 1..Len(lines) : ~IsBlank(lines[i])}
    IN  IF nb = {} THEN EmptyText
        ELSE LET lo == CHOOSE i \in nb : \A j \in nb : i <= j
                 hi == CHOOSE i \in nb : \A j \in nb : j <= i
             IN  [k \in 1..(hi - lo + 1) |->
                     IF k = 1 THEN StrLStrip(lines[lo]) ELSE lines[lo + k - 1]]

(* ------------------------- snapshot capture ---------------------------- *)

RECURSIVE FindCodeBlocksFrom(_, _, _)
FindCodeBlocksFrom(lines, i, open) ==
    IF i > Len(lines) THEN <<>>
    ELSE IF ~IsFence(lines[i]) THEN FindCodeBlocksFrom(lines, i + 1, open)
    ELSE IF open = 0 THEN FindCodeBlocksFrom(lines, i + 1, i)
    ELSE <<SubSeq(lines, open, i)>> \o FindCodeBlocksFrom(lines, i + 1, 0)

\* re.findall over the fence pattern: each fence pairs with the next one;
\* a trailing fence without partner matches nothing.
FindCodeBlocks(lines) == FindCodeBlocksFrom(lines, 1, 0)

RECURSIVE EmptyLinesFrom(_, _)
EmptyLinesFrom(lines, i) ==
    IF i > Len(lines) THEN <<>>
    ELSE (IF IsBlank(lines[i]) THEN <<i - 1>> ELSE <<>>)
             \o EmptyLinesFrom(lines, i + 1)

\* The indices (from 0) of the lines that are blank after stripping.
EmptyLines(lines) == EmptyLinesFrom(lines, 1)

InSeq(x, seq) == \E i \in 1..Len(seq) : seq[i] = x

(* ------------------------ rendering (collaborators) --------------------- *)

Para(line) == [code |-> FALSE, lines |-> <<line>>]
CodeBlock(lines) == [code |-> TRUE, lines |-> lines]

\* The attributes the task list plugin writes after the tag name input,
\* each preceded by the blank that separates it.
InputTag(line) ==
    IF line = CheckedItem
    THEN <<" ", "class", " ", "checked", " ", "disabled", " ", "type">>
    ELSE <<" ", "class", " ", "disabled", " ", "type">>

\* Group 1 of the pattern of update_markdown_view on such a tag: a lazy
\* run of characters, then optionally the word checked, then anything up
\* to the word disabled.  The shortest run wins for which the rest
\* matches; the group holds the word only if it stands right after the
\* run.
CheckedGroup(tag) ==
    LET disabledAfter(n) == \E j \in (n + 1)..Len(tag) : tag[j] = "disabled"
        matches(n) == disabledAfter(n)
        runs == {n \in 0..Len(tag) : matches(n)}
    IN  IF runs = {} THEN ""
        ELSE LET n == CHOOSE m \in runs : \A k \in runs : m <= k
             IN  IF n < Len(tag) /\ tag[n + 1] = "checked" /\ disabledAfter(n + 1)
                 THEN "checked" ELSE ""

\* checkbox_replacer: the glyph by the group.
CheckboxReplacer(checked_attr) ==
    IF checked_attr = "checked" THEN CheckedText ELSE UncheckedText

\* md_parser.render and the replacements of update_markdown_view on one
\* line outside code blocks.
RenderLine(line) ==
    CASE line \in {CheckedItem, UncheckedItem}
             -> Para(CheckboxReplacer(CheckedGroup(InputTag(line))))
      [] line = QuoteLine -> Para(QuoteText)
      [] OTHER -> Para(StrStrip(line))

RECURSIVE MdToBlocks(_, _, _, _)
\* md_parser.render + QTextEdit.setHtml: every non-blank line outside a
\* fence is a block of its own, a fenced region is one code block (an
\* unclosed fence runs to the end of the text), blank lines leave no block.
MdToBlocks(lines, i, inCode, acc) ==
    IF i > Len(lines)
    THEN IF inCode THEN <<CodeBlock(acc)>> ELSE <<>>
    ELSE IF inCode
         THEN IF IsFence(lines[i])
              THEN <<CodeBlock(acc)>> \o MdToBlocks(lines, i + 1, FALSE, <<>>)
              ELSE MdToBlocks(lines, i + 1, TRUE, Append(acc, lines[i]))
         ELSE IF IsFence(lines[i]) THEN MdToBlocks(lines, i + 1, TRUE, <<>>)
         ELSE IF IsBlank(lines[i]) THEN MdToBlocks(lines, i + 1, FALSE, <<>>)
         ELSE <<RenderLine(lines[i])>> \o MdToBlocks(lines, i + 1, FALSE, <<>>)

\* toMarkdown on a block that is no code block.
DraftOfBlock(text) ==
    CASE text = CheckedText -> <<CheckedDraft>>
      [] text = UncheckedText -> <<UncheckedDraft>>
      [] text = QuoteText -> <<QuoteRow, QuoteRule>>
      [] OTHER -> <<text>>

RECURSIVE BlocksToDraft(_)
\* QTextEdit.toMarkdown: each block is followed by a blank line; a code
\* block comes back fenced, its lines without their leading whitespace.
BlocksToDraft(blocks) ==
    IF blocks = <<>> THEN <<"">>
    ELSE LET b == Head(blocks)
         IN  (IF b.code
              THEN <<FenceMark>> \o [k \in 1..Len(b.lines) |-> StrLStrip(b.lines[k])]
                       \o <<FenceMark, "">>
              ELSE DraftOfBlock(b.lines[1]) \o <<"">>)
             \o BlocksToDraft(Tail(blocks))

RECURSIVE BlocksToPlain(_)
\* QTextEdit.toPlainText on a rendered document: the text of its blocks.
BlocksToPlain(blocks) ==
    IF blocks = <<>> THEN <<>>
    ELSE Head(blocks).lines \o BlocksToPlain(Tail(blocks))

(* --------------------------- recovery pipeline ------------------------- *)

\* Step 0 of the line loop: a spuriously indented non-blank line loses its
\* leading spaces.
RewriteLine(line) ==
    IF HasSpuriousIndent(line) /\ ~IsBlank(line) THEN StrLStrip(line) ELSE line

\* The body of the line loop outside code blocks: step 0, then the table
\* row of a blockquote gets its marker back and the rule of the table is
\* skipped, and a line with the glyph of a box becomes a checklist line.
\* The result is the line appended to new_lines, if any.
ProcessLine(line) ==
    LET processed_line == RewriteLine(line)
    IN  CASE processed_line = QuoteRule -> << >>
          [] processed_line = QuoteRow -> <<QuoteLine>>
          [] processed_line = CheckedDraft -> <<CheckedItem>>
          [] processed_line = UncheckedDraft -> <<UncheckedItem>>
          [] OTHER -> <<processed_line>>

RECURSIVE LineLoopNoAdvance(_, _, _, _, _, _)
\* The line loop with a code_block_index that is never advanced.
LineLoopNoAdvance(lines, i, in_code_block, code_block_lines, code_block_index, blocks) ==
    IF i > Len(lines) THEN <<>>
    ELSE LET line == lines[i]
         IN  IF ~in_code_block /\ IsFence(line)
             THEN LineLoopNoAdvance(lines, i + 1, TRUE, <<line>>, code_block_index, blocks)
             ELSE IF in_code_block
             THEN IF IsFence(line)
                  THEN IF code_block_index < Len(blocks)
                       THEN blocks[code_block_index + 1]
                                \o LineLoopNoAdvance(lines, i + 1, FALSE, <<>>,
                                                     code_block_index, blocks)
                       ELSE Append(code_block_lines, line)
                                \o LineLoopNoAdvance(lines, i + 1, FALSE, <<>>,
                                                     code_block_index, blocks)
                  ELSE LineLoopNoAdvance(lines, i + 1, TRUE,
                                         Append(code_block_lines, line),
                                         code_block_index, blocks)
             ELSE ProcessLine(line)
                      \o LineLoopNoAdvance(lines, i + 1, FALSE, <<>>,
                                           code_block_index, blocks)

RECURSIVE LineLoop(_, _, _, _, _, _)
\* The loop over the lines of the converter draft: a closed fenced block
\* is replaced by the next unconsumed snapshot entry, or kept with its
\* fences when the snapshots are used up; lines collected after a fence
\* that is never closed are not appended.
LineLoop(lines, i, in_code_block, code_block_lines, code_block_index, blocks) ==
    IF i > Len(lines) THEN <<>>
    ELSE LET line == lines[i]
         IN  IF ~in_code_block /\ IsFence(line)
             THEN LineLoop(lines, i + 1, TRUE, <<line>>, code_block_index, blocks)
             ELSE IF in_code_block
             THEN IF IsFence(line)
                  THEN IF code_block_index < Len(blocks)
                       THEN blocks[code_block_index + 1]
                                \o LineLoop(lines, i + 1, FALSE, <<>>,
                                            code_block_index + 1, blocks)
                       ELSE Append(code_block_lines, line)
                                \o LineLoop(lines, i + 1, FALSE, <<>>,
                                            code_block_index, blocks)
                  ELSE LineLoop(lines, i + 1, TRUE, Append(code_block_lines, line),
                                code_block_index, blocks)
             ELSE ProcessLine(line)
                      \o LineLoop(lines, i + 1, FALSE, <<>>, code_block_index, blocks)

\* The placeholder tokens __CODE_BLOCK_i__, i from 0.
Placeholders == <<"__CODE_BLOCK_0__", "__CODE_BLOCK_1__", "__CODE_BLOCK_2__">>

RECURSIVE ProtectFrom(_, _, _)
ProtectFrom(lines, i, k) ==
    IF i > Len(lines) THEN <<>>
    ELSE LET closing == {j \in (i + 1)..Len(lines) : IsFence(lines[j])}
         IN  IF IsFence(lines[i]) /\ closing # {}
             THEN LET j == CHOOSE c \in closing : \A d \in closing : c <= d
                  IN  <<Placeholders[k + 1]>> \o ProtectFrom(lines, j + 1, k + 1)
             ELSE <<lines[i]>> \o ProtectFrom(lines, i + 1, k)

\* No block is replaced by a placeholder.
ProtectNothing(lines) == lines

\* Every fenced block of the result is replaced by its placeholder.
ProtectBlocks(lines) == ProtectFrom(lines, 1, 0)

\* re.sub over newline, whitespace, newline: a run of blank lines between
\* two lines disappears, a run at the start or at the end of the text
\* shrinks to one empty line.
CollapseBlankLines(lines) ==
    LET n == Len(lines)
        keep(l) == ~IsBlank(l)
    IN  IF \A i \in 1..n : IsBlank(lines[i])
        THEN IF n <= 1 THEN lines ELSE <<"", "">>
        ELSE (IF IsBlank(lines[1]) THEN <<"">> ELSE <<>>)
                 \o SelectSeq(lines, keep)
                 \o (IF IsBlank(lines[n]) THEN <<"">> ELSE <<>>)

RECURSIVE SkipEmpty(_, _)
\* while orig_idx in self._original_empty_lines: orig_idx += 1
SkipEmpty(orig_idx, empty_lines) ==
    IF InSeq(orig_idx, empty_lines) THEN SkipEmpty(orig_idx + 1, empty_lines)
    ELSE orig_idx

BlankLines(n) == [k \in 1..n |-> ""]

RECURSIVE RestoreLoopNoTail(_, _, _, _)
\* The loop without the blank lines after the last content line.
RestoreLoopNoTail(lines, new_idx, orig_idx, empty_lines) ==
    LET next == SkipEmpty(orig_idx, empty_lines)
    IN  IF new_idx >= Len(lines) THEN << >>
        ELSE BlankLines(next - orig_idx) \o <<lines[new_idx + 1]>>
                 \o RestoreLoopNoTail(lines, new_idx + 1, next + 1, empty_lines)

RECURSIVE RestoreLoop(_, _, _, _)
RestoreLoop(lines, new_idx, orig_idx, empty_lines) ==
    LET next == SkipEmpty(orig_idx, empty_lines)
    IN  IF new_idx >= Len(lines) THEN BlankLines(next - orig_idx)
        ELSE BlankLines(next - orig_idx) \o <<lines[new_idx + 1]>>
                 \o RestoreLoop(lines, new_idx + 1, next + 1, empty_lines)

\* Blank lines are put back at the recorded indices; an empty snapshot
\* leaves the collapsed text as it is.
RestoreBlankLines(lines, empty_lines) ==
    IF empty_lines # <<>> THEN RestoreLoop(lines, 0, 0, empty_lines) ELSE lines

RECURSIVE UnprotectBlocks(_, _)
\* Every placeholder is replaced by the block it stands for.
UnprotectBlocks(lines, protected_blocks) ==
    IF lines = <<>> THEN <<>>
    ELSE LET hit == {k \in 1..Len(protected_blocks) : Head(lines) = Placeholders[k]}
         IN  (IF hit = {} THEN <<Head(lines)>>
              ELSE protected_blocks[CHOOSE k \in hit : TRUE])
                 \o UnprotectBlocks(Tail(lines), protected_blocks)

\* The part of get_markdown_from_rendered after the line loop: the joined
\* result with its code blocks protected, blank lines collapsed and put
\* back, code blocks restored, and the whole stripped.
CleanBlankLines(new_lines, empty_lines) ==
    LET result == IF new_lines = <<>> THEN EmptyText ELSE new_lines
        protected_blocks == FindCodeBlocks(result)
        collapsed == CollapseBlankLines(ProtectBlocks(result))
        restored == RestoreBlankLines(collapsed, empty_lines)
    IN  TextStrip(UnprotectBlocks(restored, protected_blocks))

\* get_markdown_from_rendered.  The documents of this model carry no
\* underlined run, so the underline steps find nothing to wrap.
GetMarkdownFromRendered(blocks, code_blocks, empty_lines) ==
    LET md == BlocksToDraft(blocks)
        new_lines == LineLoop(md, 1, FALSE, <<>>, 0, code_blocks)
        result == IF new_lines = <<>> THEN EmptyText ELSE new_lines
        protected_blocks == FindCodeBlocks(result)
        collapsed == CollapseBlankLines(ProtectBlocks(result))
        restored == RestoreBlankLines(collapsed, empty_lines)
    IN  TextStrip(UnprotectBlocks(restored, protected_blocks))

(* ------------------------------ the state ------------------------------ *)

VARIABLES
    data,                  \* self.data: the store in memory
    file,                  \* the image of the store last written to DATA_FILE
    current_note_id,       \* self.current_note_id, NoId for None
    is_markdown_mode,      \* self.is_markdown_mode
    markdown_source,       \* self.markdown_source
    editor,                \* the document held by self.editor
    original_code_blocks,  \* self._original_code_blocks
    original_empty_lines,  \* self._original_empty_lines
    timer_active,          \* self.save_timer.isActive()
    timer_remaining,       \* seconds until self.save_timer times out
    clock,                 \* datetime.now(), in seconds
    pc,                    \* "idle", "create_prompt" (the prompt that follows
                           \* the deletion of the last note), or "closed"
    lastOp,                \* history: the handler that ran last and its input
    burst,                 \* history: content changes of the running burst,
                           \* 0 once any other handler ran
    sinceEdit,             \* history: seconds since the last content change
    fires,                 \* history: time-outs since the last content change
    writes,                \* history: save_data calls since the last change
    locals                 \* the local variables of the function that is run
                           \* on its own (recovery, task index, migration)

vars == <<data, file, current_note_id, is_markdown_mode, markdown_source,
          editor, original_code_blocks, original_empty_lines,
          timer_active, timer_remaining, clock, pc, lastOp, burst, sinceEdit,
          fires, writes, locals>>

\* The variables of the program, without the history variables.
progVars == <<data, file, current_note_id, is_markdown_mode, markdown_source,
              editor, original_code_blocks, original_empty_lines,
              timer_active, timer_remaining, clock, pc>>

\* Content changes a burst is counted up to.
MaxBurst == 2

Min(a, b) == IF a <= b THEN a ELSE b
Max(a, b) == IF a >= b THEN a ELSE b

(* ------------------------------ the store ------------------------------ *)

\* {'notes': {}, 'settings': {}}; order is the insertion order of the
\* dict notes, last is settings.get('last_note_id').
EmptyStore == [notes |-> << >>, order |-> << >>, last |-> NoId]

NoteRecord(title, content, created, modified) ==
    [title |-> title, content |-> content, created |-> created,
     modified |-> modified]

HasNote(store, id) == id \in DOMAIN store.notes

\* notes[note_id] = record, for a new key.
InsertNote(store, id, rec) ==
    [store EXCEPT !.notes = (id :> rec) @@ store.notes,
                  !.order = Append(store.order, id)]

\* del notes[note_id]
RemoveNote(store, id) ==
    [store EXCEPT !.notes = [i \in DOMAIN store.notes \ {id} |-> store.notes[i]],
                  !.order = SelectSeq(store.order, LAMBDA i : i # id)]

(* ------------------------------ the editor ----------------------------- *)

PlainDoc(text) == [rich |-> FALSE, text |-> text, blocks |-> << >>]
RichDoc(blocks) == [rich |-> TRUE, text |-> << >>, blocks |-> blocks]

\* self.editor.toPlainText()
ToPlainText(doc) ==
    IF ~doc.rich THEN doc.text
    ELSE IF doc.blocks = << >> THEN EmptyText ELSE BlocksToPlain(doc.blocks)

\* The blocks the converter sees: a document that was typed rather than
\* rendered has one paragraph per non-blank line.
DocBlocks(doc) ==
    IF doc.rich THEN doc.blocks
    ELSE LET nonblank == SelectSeq(doc.text, LAMBDA l : ~IsBlank(l))
         IN  [k \in 1..Len(nonblank) |-> Para(nonblank[k])]

(* ------------------------- the handlers' state -------------------------- *)

\* The fields the handlers read and write, as one record: a handler is a
\* function from this record to this record, and handlers compose as the
\* calls in the source do.  wr counts the save_data calls of the handler,
\* changed tells whether it ran save_current_note.
St ==
    [data |-> data, file |-> file, cur |-> current_note_id,
     mode |-> is_markdown_mode, src |-> markdown_source, editor |-> editor,
     ocb |-> original_code_blocks, oel |-> original_empty_lines,
     tact |-> timer_active, trem |-> timer_remaining,
     now |-> clock, wr |-> 0, changed |-> FALSE]

\* save_data: the store is written to the file as it is in memory.
SaveData(s) == [s EXCEPT !.file = s.data, !.wr = s.wr + 1]

\* save_current_note with a timer that is left alone while it runs.
SaveCurrentNoteNoRestart(s) ==
    IF s.tact THEN [s EXCEPT !.changed = TRUE]
    ELSE [s EXCEPT !.tact = TRUE, !.trem = SaveInterval, !.changed = TRUE]

\* save_current_note that does not start the timer.
SaveCurrentNoteNoStart(s) == [s EXCEPT !.changed = TRUE]

\* save_current_note: the single-shot timer is (re)started.
SaveCurrentNote(s) ==
    [s EXCEPT !.tact = TRUE, !.trem = SaveInterval, !.changed = TRUE]

\* The Markdown of the document in the editor, as perform_save takes it.
EditorMarkdown(s) ==
    IF s.mode
    THEN GetMarkdownFromRendered(DocBlocks(s.editor), s.ocb, s.oel)
    ELSE ToPlainText(s.editor)

\* perform_save that stores the plain text of the editor in either mode.
PerformSavePlain(s) ==
    IF s.cur = NoId THEN s
    ELSE IF ~HasNote(s.data, s.cur) THEN s
    ELSE LET content == ToPlainText(s.editor)
         IN  SaveData([s EXCEPT !.src = content,
                                !.data.notes[s.cur].content = content,
                                !.data.notes[s.cur].modified = s.now])

\* perform_save
PerformSave(s) ==
    IF s.cur = NoId THEN s
    ELSE IF ~HasNote(s.data, s.cur) THEN s
    ELSE LET content == EditorMarkdown(s)
         IN  SaveData([s EXCEPT !.src = content,
                                !.data.notes[s.cur].content = content,
                                !.data.notes[s.cur].modified = s.now])

\* load_note that leaves is_markdown_mode as it was.
LoadNoteKeepMode(s, note_id) ==
    IF ~HasNote(s.data, note_id) THEN s
    ELSE LET content == s.data.notes[note_id].content
         IN  [s EXCEPT !.cur = note_id,
                       !.src = content,
                       !.editor = PlainDoc(content),
                       !.data.last = note_id]

\* load_note that leaves the document of the editor as it is.
LoadNoteKeepEditor(s, note_id) ==
    IF ~HasNote(s.data, note_id) THEN s
    ELSE LET content == s.data.notes[note_id].content
         IN  [s EXCEPT !.cur = note_id,
                       !.src = content,
                       !.mode = FALSE,
                       !.data.last = note_id]

\* load_note
LoadNote(s, note_id) ==
    IF ~HasNote(s.data, note_id) THEN s
    ELSE LET content == s.data.notes[note_id].content
         IN  [s EXCEPT !.cur = note_id,
                       !.src = content,
                       !.editor = PlainDoc(content),
                       !.mode = FALSE,
                       !.data.last = note_id]

\* uuid.uuid4(): an identifier no part of the state refers to; the least
\* of them stands for all, identifiers being compared for equality only.
Referenced(s) ==
    DOMAIN s.data.notes \cup DOMAIN s.file.notes
        \cup {s.cur, s.data.last, s.file.last}

FreshIds(s) == NoteIds \ Referenced(s)

NewId(s) == CHOOSE i \in FreshIds(s) : \A j \in FreshIds(s) : i <= j

\* create_new_note, answer being what QInputDialog.getText returns.
CreateNewNote(s, answer) ==
    IF ~answer.ok \/ StrStrip(answer.text) = "" THEN s
    ELSE LET note_id == NewId(s)
             rec == NoteRecord(StrStrip(answer.text), EmptyText, s.now, s.now)
         IN  SaveData(LoadNote([s EXCEPT !.data = InsertNote(s.data, note_id, rec)],
                               note_id))

\* load_last_note
LoadLastNote(s, answer) ==
    IF s.data.last # NoId /\ HasNote(s.data, s.data.last)
    THEN LoadNote(s, s.data.last)
    ELSE IF s.data.order # << >> THEN LoadNote(s, s.data.order[1])
    ELSE CreateNewNote(s, answer)

\* switch_note that loads before it saves.
SwitchNoteLoadFirst(s, note_id) == PerformSave(LoadNote(s, note_id))

\* switch_note
SwitchNote(s, note_id) == LoadNote(PerformSave(s), note_id)

\* rename_current_note that also stamps the record as modified.
RenameTouchesModified(s, answer) ==
    IF ~HasNote(s.data, s.cur) THEN s
    ELSE IF answer.ok /\ StrStrip(answer.text) # ""
         THEN SaveData([s EXCEPT !.data.notes[s.cur].title = StrStrip(answer.text),
                                 !.data.notes[s.cur].modified = s.now])
         ELSE s

\* rename_current_note
RenameCurrentNote(s, answer) ==
    IF ~HasNote(s.data, s.cur) THEN s
    ELSE IF answer.ok /\ StrStrip(answer.text) # ""
         THEN SaveData([s EXCEPT !.data.notes[s.cur].title = StrStrip(answer.text)])
         ELSE s

\* update_markdown_view: setHtml replaces the document and emits
\* textChanged, which is connected to save_current_note.
UpdateMarkdownView(s) ==
    IF s.src = EmptyText THEN s
    ELSE SaveCurrentNote(
             [s EXCEPT !.editor = RichDoc(MdToBlocks(s.src, 1, FALSE, << >>))])

\* render_markdown that takes the snapshots from the cached source.
RenderMarkdownStaleSource(s) ==
    IF s.mode
    THEN LET source == GetMarkdownFromRendered(DocBlocks(s.editor), s.ocb, s.oel)
         IN  [s EXCEPT !.src = source, !.editor = PlainDoc(source), !.mode = FALSE]
    ELSE LET captured == [s EXCEPT !.ocb = FindCodeBlocks(s.src),
                                   !.oel = EmptyLines(s.src)]
         IN  [UpdateMarkdownView(captured) EXCEPT !.mode = TRUE]

\* render_markdown; the signals of the editor are blocked while the
\* recovered source is put back.
RenderMarkdown(s) ==
    IF s.mode
    THEN LET source == GetMarkdownFromRendered(DocBlocks(s.editor), s.ocb, s.oel)
         IN  [s EXCEPT !.src = source, !.editor = PlainDoc(source), !.mode = FALSE]
    ELSE LET source == ToPlainText(s.editor)
             captured == [s EXCEPT !.src = source,
                                   !.ocb = FindCodeBlocks(source),
                                   !.oel = EmptyLines(source)]
         IN  [UpdateMarkdownView(captured) EXCEPT !.mode = TRUE]

\* apply_font_size, the common end of adjust_font_size and change_font:
\* in Rendered mode the view is rendered again from markdown_source.  The
\* point size itself is presentation state, like the colours, and is not
\* part of this model.
ApplyFontSize(s) == IF s.mode THEN UpdateMarkdownView(s) ELSE s

\* delete_current_note up to its last branch: with other notes left the
\* first of them is loaded; with none left the handler goes on to the
\* prompt of create_new_note (see DeletePromptAnswer).
DeleteCurrentNote(s, yes) ==
    IF ~HasNote(s.data, s.cur) THEN s
    ELSE IF ~yes THEN s
    ELSE LET deleted == SaveData([s EXCEPT !.data = RemoveNote(s.data, s.cur)])
         IN  IF deleted.data.order # << >>
             THEN LoadNote(deleted, deleted.data.order[1])
             ELSE deleted

(* ------------------------------- inputs -------------------------------- *)

\* What the user types into a title prompt.
TitleInputs == {" U ", " "}

\* (text, ok) as returned by QInputDialog.getText.
PromptAnswers ==
    {[ok |-> FALSE, text |-> "T"]} \cup {[ok |-> TRUE, text |-> t] : t \in TitleInputs}

\* The texts the user leaves in the editor in Source mode: nothing, or a
\* fenced block with an indented line and a blank line.
SourceTexts ==
    {EmptyText, <<FenceMark, "  x", "", FenceMark>>}

\* The documents the user can turn the rendered document into: the last
\* block deleted.
RenderedEdits(blocks) ==
    IF blocks # << >> THEN {SubSeq(blocks, 1, Len(blocks) - 1)} ELSE {}

\* The files the application finds at start: none (read as an empty
\* store), or two notes of which the first was open last.
InitFiles ==
    {EmptyStore,
     [notes |-> (1 :> NoteRecord("T", <<FenceMark, "  x", "", FenceMark>>, 0, 0))
                   @@ (2 :> NoteRecord("T", EmptyText, 0, 0)),
      order |-> <<1, 2>>, last |-> 1]}

NoAnswer == [ok |-> TRUE, text |-> ""]

\* No function is run on its own.
NoLocals == [fn |-> "none"]

Op(name, answer) ==
    [op |-> name, ok |-> answer.ok, text |-> answer.text]

(* --------------------------- initial states ----------------------------- *)

\* __init__: the store is loaded, the last note is opened (or a first one
\* is asked for), and a non-blank note is rendered at once.
Constructed(f, answer) ==
    LET fields == [data |-> f, file |-> f, cur |-> NoId, mode |-> FALSE,
                   src |-> EmptyText, editor |-> PlainDoc(EmptyText),
                   ocb |-> << >>, oel |-> << >>,
                   tact |-> FALSE, trem |-> 0, now |-> 0, wr |-> 0,
                   changed |-> FALSE]
        loaded == LoadLastNote(fields, answer)
    IN  IF TextStrip(ToPlainText(loaded.editor)) # EmptyText
        THEN RenderMarkdown(loaded)
        ELSE loaded

Init ==
    \E f \in InitFiles, answer \in PromptAnswers :
        LET s == Constructed(f, answer)
        IN  /\ data = s.data
            /\ file = s.file
            /\ current_note_id = s.cur
            /\ is_markdown_mode = s.mode
            /\ markdown_source = s.src
            /\ editor = s.editor
            /\ original_code_blocks = s.ocb
            /\ original_empty_lines = s.oel
            /\ timer_active = s.tact
            /\ timer_remaining = s.trem
            /\ clock = s.now
            /\ pc = "idle"
            /\ lastOp = Op("init", NoAnswer)
            /\ burst = IF s.changed THEN 1 ELSE 0
            /\ sinceEdit = 0
            /\ fires = 0
            /\ writes = 0
            /\ locals = NoLocals

(* ------------------------------- actions -------------------------------- *)

\* The handler's result s becomes the next state.  The history variables
\* follow: a content change opens or extends a burst and resets the
\* counters; a handler other than the clock and the timer ends the burst,
\* and outside a burst the counters rest at 0.
Commit(s, op, newpc) ==
    /\ data' = s.data
    /\ file' = s.file
    /\ current_note_id' = s.cur
    /\ is_markdown_mode' = s.mode
    /\ markdown_source' = s.src
    /\ editor' = s.editor
    /\ original_code_blocks' = s.ocb
    /\ original_empty_lines' = s.oel
    /\ timer_active' = s.tact
    /\ timer_remaining' = s.trem
    /\ clock' = s.now
    /\ pc' = newpc
    /\ lastOp' = op
    /\ burst' = IF s.changed
                THEN IF burst > 0 /\ timer_active THEN Min(burst + 1, MaxBurst)
                     ELSE 1
                ELSE IF op.op \in {"tick", "timeout"} THEN burst ELSE 0
    /\ sinceEdit' = IF s.changed \/ burst' = 0 THEN 0
                    ELSE IF op.op = "tick" THEN Min(sinceEdit + 1, SaveInterval)
                    ELSE sinceEdit
    /\ fires' = IF s.changed \/ burst' = 0 THEN 0
                ELSE IF op.op = "timeout" THEN Min(fires + 1, 2)
                ELSE fires
    /\ writes' = IF s.changed \/ burst' = 0 THEN 0 ELSE Min(writes + s.wr, 2)
    /\ UNCHANGED locals

\* One second passes; a running timer comes a second closer to its
\* time-out.  Time also passes while the prompt is open.
Tick ==
    /\ pc # "closed"
    /\ Commit([St EXCEPT !.now = Min(clock + 1, MaxClock),
                         !.trem = IF timer_active THEN Max(0, timer_remaining - 1)
                                  ELSE timer_remaining],
              Op("tick", NoAnswer), pc)

\* save_timer.timeout: the single-shot timer stops and perform_save runs.
\* The event loop of an open prompt delivers it as well.
Timeout ==
    /\ pc # "closed"
    /\ timer_active
    /\ timer_remaining = 0
    /\ Commit(PerformSave([St EXCEPT !.tact = FALSE]),
              Op("timeout", NoAnswer), pc)

\* The user edits the source: textChanged runs save_current_note.
EditSource ==
    /\ pc = "idle"
    /\ ~is_markdown_mode
    /\ \E text \in SourceTexts \ {ToPlainText(editor)} :
           Commit(SaveCurrentNote([St EXCEPT !.editor = PlainDoc(text)]),
                  Op("edit", NoAnswer), pc)

\* The user edits the rendered view: textChanged runs save_current_note.
EditRendered ==
    /\ pc = "idle"
    /\ is_markdown_mode
    /\ \E blocks \in RenderedEdits(DocBlocks(editor)) :
           Commit(SaveCurrentNote([St EXCEPT !.editor = RichDoc(blocks)]),
                  Op("edit", NoAnswer), pc)

\* Ctrl+M or the context menu entry.
ToggleRender ==
    /\ pc = "idle"
    /\ Commit(RenderMarkdown(St), Op("render_markdown", NoAnswer), pc)

\* Ctrl+=, Ctrl+- and the font dialog.
FontSize ==
    /\ pc = "idle"
    /\ Commit(ApplyFontSize(St), Op("apply_font_size", NoAnswer), pc)

\* An entry of the note selector; the menu lists the notes of the store.
Switch ==
    /\ pc = "idle"
    /\ \E note_id \in DOMAIN data.notes :
           Commit(SwitchNote(St, note_id), Op("switch_note", NoAnswer), pc)

\* The new-note button.  An accepted title needs room in the store.
Create ==
    /\ pc = "idle"
    /\ \E answer \in PromptAnswers :
           /\ (answer.ok /\ StrStrip(answer.text) # "")
                  => (Cardinality(DOMAIN data.notes) < MaxNotes /\ FreshIds(St) # {})
           /\ Commit(CreateNewNote(St, answer),
                     Op("create_new_note", answer), pc)

\* The rename entry of the note selector.
Rename ==
    /\ pc = "idle"
    /\ \E answer \in PromptAnswers :
           Commit(RenameCurrentNote(St, answer),
                  Op("rename_current_note", answer), pc)

\* The delete entry of the note selector, answered Yes or No.  When the
\* last note went, the prompt of create_new_note opens.  lastOp.ok tells
\* whether a note was deleted.
Delete ==
    /\ pc = "idle"
    /\ \E yes \in BOOLEAN :
           LET s == DeleteCurrentNote(St, yes)
               prompt == yes /\ HasNote(data, current_note_id) /\ s.data.order = << >>
           IN  Commit(s,
                      Op(IF prompt THEN "delete_prompt" ELSE "delete_current_note",
                         [ok |-> yes /\ HasNote(data, current_note_id), text |-> ""]),
                      IF prompt THEN "create_prompt" ELSE "idle")

\* The prompt after the last note was deleted is answered: create_new_note
\* finishes and with it delete_current_note.
DeletePromptAnswer ==
    /\ pc = "create_prompt"
    /\ \E answer \in PromptAnswers :
           Commit(CreateNewNote(St, answer),
                  Op("delete_current_note", answer), "idle")

\* closeEvent: the application quits; nothing is saved, no timer fires.
Close ==
    /\ pc = "idle"
    /\ Commit(St, Op("closeEvent", NoAnswer), "closed")

Next ==
    \/ Tick
    \/ Timeout
    \/ EditSource
    \/ EditRendered
    \/ ToggleRender
    \/ FontSize
    \/ Switch
    \/ Create
    \/ Rename
    \/ Delete
    \/ DeletePromptAnswer
    \/ Close

Spec == Init /\ [][Next]_vars

\* The guard of Timeout: the timer has run out while the application runs.
TimeoutEnabled == pc # "closed" /\ timer_active /\ timer_remaining = 0

\* A step of Timeout, told by what it records.
TimeoutStep == lastOp'.op = "timeout"

\* The event loop keeps running: time passes, and a timer that has run out
\* delivers its time-out.  The second condition is weak fairness of
\* Timeout, written out with its guard for the states that enable it.
LiveSpec ==
    Init /\ [][Next]_vars /\ WF_vars(Tick)
        /\ ([]<>~TimeoutEnabled \/ []<><<TimeoutStep>>_vars)

(* ------------------- the recovery pipeline on its own ------------------- *)

\* Lines of a converter draft.
MaxDraftLen == 4

\* Entries of the code-block snapshot.
MaxSnapshots == 2

\* The largest line index the blank-line snapshot records.
MaxBlankIndex == 2

RECURSIVE SortedSeq(_)
\* The numbers of a set in increasing order.
SortedSeq(S) ==
    IF S = {} THEN << >>
    ELSE LET m == CHOOSE x \in S : \A y \in S : x <= y
         IN  <<m>> \o SortedSeq(S \ {m})

\* The lines toMarkdown can return.
DraftLines == {"a", "", FenceMark, "  x"}

\* What toMarkdown returned, split at newlines.
Drafts == UNION {[1..k -> DraftLines] : k \in 1..MaxDraftLen}

\* The fenced blocks the snapshot can hold.
SnapshotBlocks == {<<FenceMark, "  x", FenceMark>>, <<FenceMark, "a", "", FenceMark>>}

\* self._original_code_blocks as render_markdown can leave it.
CodeBlockSnapshots == UNION {[1..k -> SnapshotBlocks] : k \in 0..MaxSnapshots}

\* self._original_empty_lines as render_markdown can leave it: line
\* indices in increasing order.
EmptyLineSnapshots == {SortedSeq(S) : S \in SUBSET (0..MaxBlankIndex)}

\* The controller in Rendered mode with the given snapshots, about to run
\* get_markdown_from_rendered on the draft md; the document in the editor
\* is the one toMarkdown turned into md and is not read again.
RecoveryInit ==
    /\ data = EmptyStore
    /\ file = EmptyStore
    /\ current_note_id = NoId
    /\ is_markdown_mode = TRUE
    /\ markdown_source = EmptyText
    /\ editor = RichDoc(<< >>)
    /\ original_code_blocks \in CodeBlockSnapshots
    /\ original_empty_lines \in EmptyLineSnapshots
    /\ timer_active = FALSE
    /\ timer_remaining = 0
    /\ clock = 0
    /\ pc = "draft"
    /\ lastOp = Op("init", NoAnswer)
    /\ burst = 0
    /\ sinceEdit = 0
    /\ fires = 0
    /\ writes = 0
    /\ \E md \in Drafts :
           locals = [fn |-> "get_markdown_from_rendered", md |-> md,
                     new_lines |-> << >>, result |-> << >>]

\* The line loop has run over the draft.
RunLineLoop ==
    /\ pc = "draft"
    /\ locals' = [locals EXCEPT
                     !.new_lines = LineLoop(locals.md, 1, FALSE, << >>, 0,
                                            original_code_blocks)]
    /\ pc' = "looped"
    /\ UNCHANGED <<data, file, current_note_id, is_markdown_mode,
                   markdown_source, editor, original_code_blocks,
                   original_empty_lines, timer_active, timer_remaining, clock,
                   lastOp, burst, sinceEdit, fires, writes>>

\* The blank-line pass has run and the function returns.
RunBlankLinePass ==
    /\ pc = "looped"
    /\ locals' = [locals EXCEPT
                     !.result = CleanBlankLines(locals.new_lines,
                                                original_empty_lines)]
    /\ pc' = "recovered"
    /\ UNCHANGED <<data, file, current_note_id, is_markdown_mode,
                   markdown_source, editor, original_code_blocks,
                   original_empty_lines, timer_active, timer_remaining, clock,
                   lastOp, burst, sinceEdit, fires, writes>>

RecoveryNext == RunLineLoop \/ RunBlankLinePass

RecoverySpec == RecoveryInit /\ [][RecoveryNext]_vars

(* ----------------------- render and recover cycles ---------------------- *)

\* Lines of a note the cycles start from.
MaxSourceLen == 4

\* The lines of such a note.
SourceLineSet ==
    {"a", "", FenceMark, "  x", CheckedItem, UncheckedItem, QuoteLine}

\* The notes found at start: one note with any text of these lines.
RoundTripFiles ==
    {[notes |-> (1 :> NoteRecord("T", text, 0, 0)), order |-> <<1>>, last |-> 1] :
        text \in UNION {[1..k -> SourceLineSet] : k \in 1..MaxSourceLen}}

\* __init__ on such a file: the note is loaded and, unless blank,
\* rendered.
RoundTripInit ==
    \E f \in RoundTripFiles :
        LET s == Constructed(f, NoAnswer)
        IN  /\ data = s.data
            /\ file = s.file
            /\ current_note_id = s.cur
            /\ is_markdown_mode = s.mode
            /\ markdown_source = s.src
            /\ editor = s.editor
            /\ original_code_blocks = s.ocb
            /\ original_empty_lines = s.oel
            /\ timer_active = s.tact
            /\ timer_remaining = s.trem
            /\ clock = s.now
            /\ pc = "idle"
            /\ lastOp = Op("init", NoAnswer)
            /\ burst = IF s.changed THEN 1 ELSE 0
            /\ sinceEdit = 0
            /\ fires = 0
            /\ writes = 0
            /\ locals = NoLocals

\* The user only toggles the mode: no edit, and no time passes.
RoundTripNext == ToggleRender

RoundTripSpec == RoundTripInit /\ [][RoundTripNext]_vars

(* --------------------------- the task calendar -------------------------- *)

\* In the task calendar a line of a note is given by its parts: lead is what
\* the stripped line starts with, text the words after it, anns the
\* annotations @word(arg) that follow, in order.  The argument of an
\* annotation is never empty; digits says whether it is written as four,
\* two and two digits joined by dashes.
MaxAnnotations == 2

DateArg(y, m, d) == [digits |-> TRUE, y |-> y, m |-> m, d |-> d]

\* An argument that is not a date at all, such as a word.
WordArg == [digits |-> FALSE, y |-> 0, m |-> 0, d |-> 0]

Annotation(word, arg) == [word |-> word, arg |-> arg]

TaskLine(lead, text, anns) == [lead |-> lead, text |-> text, anns |-> anns]

IsLeapYear(y) == (y % 4 = 0 /\ y % 100 # 0) \/ y % 400 = 0

DaysInMonth(y, m) ==
    IF m = 2 THEN (IF IsLeapYear(y) THEN 29 ELSE 28)
    ELSE IF m \in {4, 6, 9, 11} THEN 30 ELSE 31

\* QDate.fromString(date_str, "yyyy-MM-dd").isValid()
QDateIsValid(arg) ==
    /\ arg.digits
    /\ arg.y >= 1
    /\ arg.m \in 1..12
    /\ arg.d >= 1
    /\ arg.d <= DaysInMonth(arg.y, arg.m)

\* line.strip().startswith(('- [ ]', '- [x]', '- [X]', unchecked glyph,
\* checked glyph))
StartsWithMarker(line) ==
    line.lead \in {"- [ ]", "- [x]", "- [X]", "(o)", "(v)"}

\* re.search of @word(dddd-dd-dd): the index of the leftmost annotation
\* with that word and an argument of that shape, 0 when there is none.
RECURSIVE SearchAnnotation(_, _, _)
SearchAnnotation(anns, word, i) ==
    IF i > Len(anns) THEN 0
    ELSE IF anns[i].word = word /\ anns[i].arg.digits THEN i
    ELSE SearchAnnotation(anns, word, i + 1)

\* The three substitutions on the line: every annotation is removed, then
\* the leading marker.
TaskName(line) ==
    [line EXCEPT !.anns = << >>,
                 !.lead = IF StartsWithMarker(line) THEN "" ELSE @]

\* The test of a line of update_calendar_marks, and what it appends.
DatedEntry(date_str, note_title, task_name, is_due) ==
    [date_str |-> date_str, note_title |-> note_title,
     task_name |-> task_name, is_due |-> is_due]

\* Every line passes the marker test.
MarkedEntriesAnyLine(note_title, line) ==
    LET due_match == SearchAnnotation(line.anns, "due", 1)
        start_match == SearchAnnotation(line.anns, "start", 1)
    IN  (IF due_match # 0
         THEN <<DatedEntry(line.anns[due_match].arg, note_title,
                           TaskName(line), TRUE)>>
         ELSE << >>)
        \o
        (IF start_match # 0
         THEN <<DatedEntry(line.anns[start_match].arg, note_title,
                           TaskName(line), FALSE)>>
         ELSE << >>)

MarkedEntries(note_title, line) ==
    IF ~StartsWithMarker(line) THEN << >>
    ELSE LET due_match == SearchAnnotation(line.anns, "due", 1)
             start_match == SearchAnnotation(line.anns, "start", 1)
         IN  (IF due_match # 0
              THEN <<DatedEntry(line.anns[due_match].arg, note_title,
                                TaskName(line), TRUE)>>
              ELSE << >>)
             \o
             (IF start_match # 0
              THEN <<DatedEntry(line.anns[start_match].arg, note_title,
                                TaskName(line), FALSE)>>
              ELSE << >>)

\* The two loops over the notes of the store and the lines of each note.
CollectEntries(store) ==
    Flatten([k \in 1..Len(store.order) |->
        LET note_info == store.notes[store.order[k]]
        IN  Flatten([i \in 1..Len(note_info.content) |->
                MarkedEntries(note_info.title, note_info.content[i])])])

\* task_dates: date_str -> [(note_title, task_name, is_due), ...]
TaskDates(store) ==
    LET entries == CollectEntries(store)
    IN  [date_str \in {entries[i].date_str : i \in 1..Len(entries)} |->
            LET under == SelectSeq(entries, LAMBDA e : e.date_str = date_str)
            IN  [k \in 1..Len(under) |->
                    [note_title |-> under[k].note_title,
                     task_name |-> under[k].task_name,
                     is_due |-> under[k].is_due]]]

\* Every key of task_dates gets a format, whether it is a valid date or not.
CalendarFormatsAllKeys(task_dates) ==
    [date_str \in DOMAIN task_dates |->
        LET tasks == task_dates[date_str]
            has_due == \E k \in 1..Len(tasks) : tasks[k].is_due
            has_start == \E k \in 1..Len(tasks) : ~tasks[k].is_due
        IN  IF has_due /\ has_start THEN "both_format"
            ELSE IF has_due THEN "due_format" ELSE "start_format"]

\* The formats set on the calendar: one per key of task_dates that is a
\* valid date.
CalendarFormats(task_dates) ==
    [date_str \in {d \in DOMAIN task_dates : QDateIsValid(d)} |->
        LET tasks == task_dates[date_str]
            has_due == \E k \in 1..Len(tasks) : tasks[k].is_due
            has_start == \E k \in 1..Len(tasks) : ~tasks[k].is_due
        IN  IF has_due /\ has_start THEN "both_format"
            ELSE IF has_due THEN "due_format" ELSE "start_format"]

\* f'@word({date_str})' in line
InLine(line, word, date_str) ==
    \E i \in 1..Len(line.anns) :
        line.anns[i].word = word /\ line.anns[i].arg = date_str

\* The test of a line of show_tasks_for_date, and what it appends.
ShownTasks(note_id, note_title, line, date_str) ==
    IF StartsWithMarker(line)
       /\ (InLine(line, "due", date_str) \/ InLine(line, "start", date_str))
    THEN <<[note_id |-> note_id, note_title |-> note_title,
            task_name |-> TaskName(line),
            is_due |-> InLine(line, "due", date_str),
            is_start |-> InLine(line, "start", date_str)]>>
    ELSE << >>

ShowTasksForDate(store, date_str) ==
    Flatten([k \in 1..Len(store.order) |->
        LET note_id == store.order[k]
            note_info == store.notes[note_id]
        IN  Flatten([i \in 1..Len(note_info.content) |->
                ShownTasks(note_id, note_info.title, note_info.content[i],
                           date_str)])])

\* The arguments the annotations of the model carry: two dates of the
\* calendar, a 30th of February, a 13th month, and a word.
AnnotationArgs ==
    {DateArg(2024, 2, 29), DateArg(2024, 3, 1), DateArg(2024, 2, 30),
     DateArg(2024, 13, 1), WordArg}

Annotations ==
    {Annotation(w, a) : w \in {"due", "start"}, a \in AnnotationArgs}
    \cup {Annotation("p", WordArg)}

LineLeads == {"- [ ]", "(v)", "-"}

TaskLines ==
    {TaskLine(lead, "Buy", anns) :
        lead \in LineLeads,
        anns \in UNION {[1..k -> Annotations] : k \in 0..MaxAnnotations}}

\* The second note, when there is one: a paragraph, then a task that starts
\* on one of the dates.
SecondNoteLines ==
    <<TaskLine("", "Plan", << >>),
      TaskLine("- [x]", "Pay",
               <<Annotation("start", DateArg(2024, 2, 29))>>)>>

CalendarStores ==
    {[notes |-> (1 :> NoteRecord("T", <<line>>, 0, 0)),
      order |-> <<1>>, last |-> 1] : line \in TaskLines}
    \cup
    {[notes |-> (1 :> NoteRecord("T", <<line>>, 0, 0))
                @@ (2 :> NoteRecord("U", SecondNoteLines, 0, 0)),
      order |-> <<1, 2>>, last |-> 1] : line \in TaskLines}

\* The dates a click on the calendar can hand to on_date_selected.
CalendarDates == {a \in AnnotationArgs : QDateIsValid(a)}

CalendarInit ==
    /\ data \in CalendarStores
    /\ file = data
    /\ current_note_id = 1
    /\ is_markdown_mode = FALSE
    /\ markdown_source = EmptyText
    /\ editor = RichDoc(<< >>)
    /\ original_code_blocks = << >>
    /\ original_empty_lines = << >>
    /\ timer_active = FALSE
    /\ timer_remaining = 0
    /\ clock = 0
    /\ pc = "calendar_hidden"
    /\ lastOp = Op("init", NoAnswer)
    /\ burst = 0
    /\ sinceEdit = 0
    /\ fires = 0
    /\ writes = 0
    /\ locals = [fn |-> "calendar", task_dates |-> << >>,
                 formats |-> << >>, date_str |-> WordArg, tasks |-> << >>]

\* toggle_calendar shows the calendar and update_calendar_marks runs.
UpdateCalendarMarks ==
    /\ pc = "calendar_hidden"
    /\ LET task_dates == TaskDates(data)
       IN  locals' = [locals EXCEPT !.task_dates = task_dates,
                                    !.formats = CalendarFormats(task_dates)]
    /\ pc' = "calendar_shown"
    /\ UNCHANGED <<data, file, current_note_id, is_markdown_mode,
                   markdown_source, editor, original_code_blocks,
                   original_empty_lines, timer_active, timer_remaining, clock,
                   lastOp, burst, sinceEdit, fires, writes>>

\* A click on a date of the calendar: on_date_selected hands its text to
\* show_tasks_for_date.
OnDateSelected ==
    /\ pc \in {"calendar_shown", "date_selected"}
    /\ \E qdate \in CalendarDates :
           locals' = [locals EXCEPT !.date_str = qdate,
                                    !.tasks = ShowTasksForDate(data, qdate)]
    /\ pc' = "date_selected"
    /\ UNCHANGED <<data, file, current_note_id, is_markdown_mode,
                   markdown_source, editor, original_code_blocks,
                   original_empty_lines, timer_active, timer_remaining, clock,
                   lastOp, burst, sinceEdit, fires, writes>>

CalendarNext == UpdateCalendarMarks \/ OnDateSelected

CalendarSpec == CalendarInit /\ [][CalendarNext]_vars

(* --------------------------- loading the file --------------------------- *)

\* What json.load can hand to load_data.  type is the type of the value
\* read; has_notes and has_settings say whether 'notes' in data and
\* 'settings' in data hold for it (a key for an object, an element for an
\* array); notes_map and settings_map say whether the values under the two
\* keys are maps; store gives the notes and the settings when they are;
\* entries are the items of an object in the old format, in file order.
MaxLegacyEntries == 2

JsonValue(type, has_notes, has_settings, notes_map, settings_map, store, entries) ==
    [type |-> type, has_notes |-> has_notes, has_settings |-> has_settings,
     notes_map |-> notes_map, settings_map |-> settings_map,
     store |-> store, entries |-> entries]

\* A value in the new format with a map under both keys.
StoreValue(store) ==
    JsonValue("object", TRUE, TRUE, TRUE, TRUE, store, << >>)

\* {'notes': {}, 'settings': {}}
EmptyStoreValue == StoreValue(EmptyStore)

\* An item of the old format: date_str is the key; the value is a string
\* (text holds its lines), null, or something else that is not a string,
\* such as a number other than zero.
LegacyEntry(date_str, json_type, text) ==
    [date_str |-> date_str, json_type |-> json_type, text |-> text]

\* content.startswith("MARKDOWN_SOURCE:")
StartsWithPrefix(content) ==
    content[1] \in {"MARKDOWN_SOURCE:", "MARKDOWN_SOURCE:a"}

\* The content is left as it is read.
KeepPrefix(content) == content

\* content[16:]
DropPrefix(content) ==
    [content EXCEPT ![1] = CASE @ = "MARKDOWN_SOURCE:" -> ""
                             [] @ = "MARKDOWN_SOURCE:a" -> "a"
                             [] OTHER -> @]

\* f"note ({date_str})", the word being the one of the source.
LegacyTitle(date_str) == [label |-> "note", date_str |-> date_str]

\* uuid.uuid4(): an id that no note of the new store has.
LegacyNoteId(new_data) ==
    CHOOSE i \in NoteIds \ DOMAIN new_data.notes :
        \A j \in NoteIds \ DOMAIN new_data.notes : i <= j

\* The body of the loop of migrate_old_data for one item; raised says that
\* content.strip() was asked of a value that has no such method.
RECURSIVE MigrateFrom(_, _, _)
MigrateFrom(entries, i, new_data) ==
    IF i > Len(entries) THEN [raised |-> FALSE, new_data |-> new_data]
    ELSE LET content == entries[i].text
             date_str == entries[i].date_str
         IN  IF entries[i].json_type = "null"
                \/ (entries[i].json_type = "string" /\ content = EmptyText)
             THEN MigrateFrom(entries, i + 1, new_data)
             ELSE IF entries[i].json_type # "string"
             THEN [raised |-> TRUE, new_data |-> new_data]
             ELSE IF TextStrip(content) = EmptyText
             THEN MigrateFrom(entries, i + 1, new_data)
             ELSE LET note_id == LegacyNoteId(new_data)
                      stored == IF StartsWithPrefix(content)
                                THEN DropPrefix(content) ELSE content
                  IN  MigrateFrom(entries, i + 1,
                          [InsertNote(new_data, note_id,
                                      NoteRecord(LegacyTitle(date_str), stored,
                                                 date_str, date_str))
                              EXCEPT !.last = note_id])

\* migrate_old_data: old_data.items() exists for an object only.
MigrateOldData(old_data) ==
    IF old_data.type # "object"
    THEN [raised |-> TRUE, new_data |-> EmptyStore]
    ELSE MigrateFrom(old_data.entries, 1, EmptyStore)

\* load_data on the file the disk holds.
LoadData(disk) ==
    IF ~disk.exists THEN EmptyStoreValue
    ELSE IF ~disk.readable \/ ~disk.parses THEN EmptyStoreValue
    ELSE LET data_read == disk.json
         IN  IF data_read.type \in {"number", "null"} THEN EmptyStoreValue
             ELSE IF data_read.has_notes /\ data_read.has_settings
             THEN data_read
             ELSE LET migrated == MigrateOldData(data_read)
                  IN  IF migrated.raised THEN EmptyStoreValue
                      ELSE StoreValue(migrated.new_data)

\* The keys of the old format: days of January 2023.
LegacyDates == {DateArg(2023, 1, k) : k \in 1..MaxLegacyEntries}

LegacyTexts ==
    {EmptyText, <<" ">>, <<"a">>, <<"", "a">>, <<"MARKDOWN_SOURCE:">>,
     <<"MARKDOWN_SOURCE:a">>, <<"MARKDOWN_SOURCE:a", "  x">>}

LegacyEntries ==
    {LegacyEntry(d, "string", t) : d \in LegacyDates, t \in LegacyTexts}
    \cup {LegacyEntry(d, json_type, EmptyText) :
             d \in LegacyDates, json_type \in {"null", "other"}}

\* Objects of the old format: up to MaxLegacyEntries items, no key twice,
\* and no more items than there are ids.
LegacyValues ==
    {JsonValue("object", FALSE, FALSE, FALSE, FALSE, EmptyStore, entries) :
        entries \in
            {es \in UNION {[1..k -> LegacyEntries] :
                              k \in 0..Min(MaxLegacyEntries, MaxIds)} :
                \A i, j \in 1..Len(es) :
                    i # j => es[i].date_str # es[j].date_str}}

\* Values with both keys: stores as the application writes them, and
\* values where a key does not hold a map.
NewFormatValues ==
    {StoreValue(store) : store \in InitFiles}
    \cup {JsonValue("object", TRUE, TRUE, notes_map, settings_map,
                    EmptyStore, << >>) :
             notes_map \in BOOLEAN, settings_map \in BOOLEAN}
    \cup {JsonValue("array", TRUE, TRUE, FALSE, FALSE, EmptyStore, << >>)}

\* Values that are no object, and mention at most one of the keys.
OtherValues ==
    {JsonValue(type, FALSE, FALSE, FALSE, FALSE, EmptyStore, << >>) :
        type \in {"array", "string", "number", "null"}}
    \cup {JsonValue("array", TRUE, FALSE, FALSE, FALSE, EmptyStore, << >>)}

DiskFile(exists, readable, parses, json) ==
    [exists |-> exists, readable |-> readable, parses |-> parses,
     json |-> json]

\* What the disk can hold: no file, a file that cannot be opened, a file
\* that is no JSON, and a file of each value above.
DiskFiles ==
    {DiskFile(FALSE, FALSE, FALSE, EmptyStoreValue),
     DiskFile(TRUE, FALSE, FALSE, EmptyStoreValue),
     DiskFile(TRUE, TRUE, FALSE, EmptyStoreValue)}
    \cup {DiskFile(TRUE, TRUE, TRUE, json) :
             json \in LegacyValues \cup NewFormatValues \cup OtherValues}

LoadInit ==
    /\ data = EmptyStore
    /\ file = EmptyStore
    /\ current_note_id = NoId
    /\ is_markdown_mode = FALSE
    /\ markdown_source = EmptyText
    /\ editor = PlainDoc(EmptyText)
    /\ original_code_blocks = << >>
    /\ original_empty_lines = << >>
    /\ timer_active = FALSE
    /\ timer_remaining = 0
    /\ clock = 0
    /\ pc = "constructing"
    /\ lastOp = Op("init", NoAnswer)
    /\ burst = 0
    /\ sinceEdit = 0
    /\ fires = 0
    /\ writes = 0
    /\ \E disk \in DiskFiles :
           locals = [fn |-> "load_data", disk |-> disk,
                     returned |-> EmptyStoreValue]

\* self.data = self.load_data()
LoadDataStep ==
    /\ pc = "constructing"
    /\ locals' = [locals EXCEPT !.returned = LoadData(locals.disk)]
    /\ pc' = "loaded"
    /\ UNCHANGED <<data, file, current_note_id, is_markdown_mode,
                   markdown_source, editor, original_code_blocks,
                   original_empty_lines, timer_active, timer_remaining, clock,
                   lastOp, burst, sinceEdit, fires, writes>>

LoadNext == LoadDataStep

LoadSpec == LoadInit /\ [][LoadNext]_vars


(* ------------------- blank-line restoration on its own ------------------ *)

\* Lines of a collapsed text.
MaxCollapsedLen == 3

\* The lines a collapsed text is made of: none of them is blank; one stands
\* for a protected code block.
CollapsedLineSet == {"a", "b", "__CODE_BLOCK_0__"}

\* result.split at newlines after the collapse: at least one line.
CollapsedTexts ==
    UNION {[1..k -> CollapsedLineSet] : k \in 1..MaxCollapsedLen}

\* The controller about to put the blank lines back into the collapsed
\* text lines, with the given blank-line snapshot.
RestoreInit ==
    /\ data = EmptyStore
    /\ file = EmptyStore
    /\ current_note_id = NoId
    /\ is_markdown_mode = TRUE
    /\ markdown_source = EmptyText
    /\ editor = RichDoc(<< >>)
    /\ original_code_blocks = << >>
    /\ original_empty_lines \in EmptyLineSnapshots
    /\ timer_active = FALSE
    /\ timer_remaining = 0
    /\ clock = 0
    /\ pc = "collapsed"
    /\ lastOp = Op("init", NoAnswer)
    /\ burst = 0
    /\ sinceEdit = 0
    /\ fires = 0
    /\ writes = 0
    /\ \E lines \in CollapsedTexts :
           locals = [fn |-> "restore_blank_lines", lines |-> lines,
                     restored_lines |-> << >>]

\* The restoration has run.
RunRestore ==
    /\ pc = "collapsed"
    /\ locals' = [locals EXCEPT
                     !.restored_lines = RestoreBlankLines(locals.lines,
                                                          original_empty_lines)]
    /\ pc' = "restored"
    /\ UNCHANGED <<data, file, current_note_id, is_markdown_mode,
                   markdown_source, editor, original_code_blocks,
                   original_empty_lines, timer_active, timer_remaining, clock,
                   lastOp, burst, sinceEdit, fires, writes>>

RestoreNext == RunRestore

RestoreSpec == RestoreInit /\ [][RestoreNext]_vars


(* ------------------------ the indent step on its own -------------------- *)

\* Leading spaces of a line of the draft.
MaxIndent == 5

\* For the indent step a line is given by the number of its leading spaces
\* and what follows them; a line of spaces only has nothing following.
IndentedLine(indent, rest) == [indent |-> indent, rest |-> rest]

IndentRests == {"", "x", "- a", "* a", "+ a", "1. a", "12. a"}

\* What the negative lookahead of the pattern refuses at the start of the
\* rest: a list marker, or digits and a dot.
StartsListItem(rest) == rest \in {"- a", "* a", "+ a", "1. a", "12. a"}

\* The pattern matches with n leading spaces taken: after them comes
\* another space, or the rest, which must not start a list item.
MatchesTaking(line, n) ==
    IF n < line.indent THEN TRUE ELSE ~StartsListItem(line.rest)

\* re.match of one to four spaces not followed by a list item: the engine
\* tries every count from four down to one.
IndentPatternMatches(line) ==
    \E n \in 1..Min(4, line.indent) : MatchesTaking(line, n)

\* Step 0 of the line loop: processed_line.lstrip(' ') when the pattern
\* matches and the stripped line is not empty.
StripIndent(line) ==
    IF IndentPatternMatches(line) /\ line.rest # ""
    THEN [line EXCEPT !.indent = 0]
    ELSE line

\* The line as the loop hands it on: inside a fenced block it is kept as
\* it is, step 0 is not reached.
IndentStep(line, in_code_block) ==
    IF in_code_block THEN line ELSE StripIndent(line)

IndentInit ==
    /\ data = EmptyStore
    /\ file = EmptyStore
    /\ current_note_id = NoId
    /\ is_markdown_mode = TRUE
    /\ markdown_source = EmptyText
    /\ editor = RichDoc(<< >>)
    /\ original_code_blocks = << >>
    /\ original_empty_lines = << >>
    /\ timer_active = FALSE
    /\ timer_remaining = 0
    /\ clock = 0
    /\ pc = "line_read"
    /\ lastOp = Op("init", NoAnswer)
    /\ burst = 0
    /\ sinceEdit = 0
    /\ fires = 0
    /\ writes = 0
    /\ \E indent \in 0..MaxIndent, rest \in IndentRests,
          in_code_block \in BOOLEAN :
           locals = [fn |-> "indent_step",
                     line |-> IndentedLine(indent, rest),
                     in_code_block |-> in_code_block,
                     processed_line |-> IndentedLine(indent, rest)]

\* The loop body has run on the line up to step 0.
RunIndentStep ==
    /\ pc = "line_read"
    /\ locals' = [locals EXCEPT
                     !.processed_line = IndentStep(locals.line,
                                                   locals.in_code_block)]
    /\ pc' = "indent_done"
    /\ UNCHANGED <<data, file, current_note_id, is_markdown_mode,
                   markdown_source, editor, original_code_blocks,
                   original_empty_lines, timer_active, timer_remaining, clock,
                   lastOp, burst, sinceEdit, fires, writes>>

IndentNext == RunIndentStep

IndentSpec == IndentInit /\ [][IndentNext]_vars


(* --------------------- underline re-wrapping on its own ----------------- *)

\* Characters of the draft, recorded underlined texts, characters of one
\* such text.
MaxMdLen == 3
MaxUnderlined == 2
MaxUnderlinedLen == 2

\* For the underline step a text is the sequence of its characters.
MdChars == {"a", "b", "u"}

OpenTag == <<"<", "u", ">">>
CloseTag == <<"<", "/", "u", ">">>

\* f'<u>{text}</u>'
Wrapped(text) == OpenTag \o text \o CloseTag

\* text occurs in md at position i.
OccursAt(text, md, i) ==
    /\ i >= 1
    /\ i + Len(text) - 1 <= Len(md)
    /\ SubSeq(md, i, i + Len(text) - 1) = text

\* text in md
OccursIn(text, md) == \E i \in 1..Len(md) : OccursAt(text, md, i)

\* md.replace(text, new, 1): the leftmost occurrence is replaced.
ReplaceFirst(md, text, new) ==
    IF ~OccursIn(text, md) THEN md
    ELSE LET i == CHOOSE p \in 1..Len(md) :
                      /\ OccursAt(text, md, p)
                      /\ \A q \in 1..(p - 1) : ~OccursAt(text, md, q)
         IN  SubSeq(md, 1, i - 1) \o new
                 \o SubSeq(md, i + Len(text), Len(md))

RECURSIVE WrapUnderlined(_, _, _)
\* The loop over underline_texts.
WrapUnderlined(md, underline_texts, k) ==
    IF k > Len(underline_texts) THEN md
    ELSE LET text == underline_texts[k]
         IN  IF OccursIn(text, md) /\ ~OccursIn(Wrapped(text), md)
             THEN WrapUnderlined(ReplaceFirst(md, text, Wrapped(text)),
                                 underline_texts, k + 1)
             ELSE WrapUnderlined(md, underline_texts, k + 1)

\* What toMarkdown returned for a paragraph without tags.
PlainMds == UNION {[1..n -> MdChars] : n \in 1..MaxMdLen}

\* The stripped texts of the underlined fragments of the document.
UnderlinedTexts == UNION {[1..n -> MdChars] : n \in 1..MaxUnderlinedLen}

\* The fragments are parts of the document the draft was made from: each
\* recorded text occurs in the draft.
UnderlineInit ==
    /\ data = EmptyStore
    /\ file = EmptyStore
    /\ current_note_id = NoId
    /\ is_markdown_mode = TRUE
    /\ markdown_source = EmptyText
    /\ editor = RichDoc(<< >>)
    /\ original_code_blocks = << >>
    /\ original_empty_lines = << >>
    /\ timer_active = FALSE
    /\ timer_remaining = 0
    /\ clock = 0
    /\ pc = "converted"
    /\ lastOp = Op("init", NoAnswer)
    /\ burst = 0
    /\ sinceEdit = 0
    /\ fires = 0
    /\ writes = 0
    /\ \E md \in PlainMds :
       \E underline_texts \in
              UNION {[1..n -> {t \in UnderlinedTexts : OccursIn(t, md)}] :
                        n \in 0..MaxUnderlined} :
           locals = [fn |-> "wrap_underlined", md |-> md,
                     underline_texts |-> underline_texts, wrapped |-> md]

\* Step 4 of get_markdown_from_rendered has run.
RunWrapUnderlined ==
    /\ pc = "converted"
    /\ locals' = [locals EXCEPT
                     !.wrapped = WrapUnderlined(locals.md,
                                                locals.underline_texts, 1)]
    /\ pc' = "underlined"
    /\ UNCHANGED <<data, file, current_note_id, is_markdown_mode,
                   markdown_source, editor, original_code_blocks,
                   original_empty_lines, timer_active, timer_remaining, clock,
                   lastOp, burst, sinceEdit, fires, writes>>

UnderlineNext == RunWrapUnderlined

UnderlineSpec == UnderlineInit /\ [][UnderlineNext]_vars


(* --------------------------- clicks on checkboxes ----------------------- *)

\* new_char that is the checked glyph whatever was selected.
NewCharChecked(selected) == CheckedText

\* new_char of eventFilter: the glyph that is not in the selection, put in
\* its place before the text of the item.
NewChar(selected) ==
    IF selected = CheckedText THEN UncheckedText ELSE CheckedText

\* The block holds a checkbox: its first character is one of the two
\* glyphs and carries the link checkbox:<N> that update_markdown_view gave
\* it.  Only rendered documents carry such links, and code blocks none.
IsCheckbox(doc, block) ==
    /\ doc.rich
    /\ block \in DOMAIN doc.blocks
    /\ ~doc.blocks[block].code
    /\ doc.blocks[block].lines[1] \in {CheckedText, UncheckedText}

\* eventFilter on the release of the left button over the first character
\* of a block: on a checkbox the glyph is replaced while the signals of the
\* editor are blocked, the format of the new glyph takes the link of the
\* old one, and save_current_note is called; any other release is left to
\* the editor.
EventFilter(s, block) ==
    IF ~s.mode THEN s
    ELSE IF ~IsCheckbox(s.editor, block) THEN s
    ELSE LET blocks == s.editor.blocks
             selected == blocks[block].lines[1]
             clicked == [blocks EXCEPT ![block] = Para(NewChar(selected))]
         IN  SaveCurrentNote([s EXCEPT !.editor = RichDoc(clicked)])

\* The release as it is recorded: the block under the pointer, and whether
\* the filter consumed the event.
ClickOp(block, consumed) ==
    [op |-> "click", ok |-> consumed, text |-> "", block |-> block]

\* The user releases the left button over a block of the rendered
\* document.
Click ==
    /\ pc = "idle"
    /\ is_markdown_mode
    /\ \E block \in DOMAIN DocBlocks(editor) :
           LET s == EventFilter(St, block)
           IN  Commit(s, ClickOp(block, s.changed), pc)

\* The user clicks in the rendered view and toggles the mode.
ClickNext ==
    \/ Click
    \/ ToggleRender

ClickSpec == RoundTripInit /\ [][ClickNext]_vars

(* ------------------------------ properties ------------------------------ *)

\* The Markdown of the editor content of the current state.
CurrentMarkdown == EditorMarkdown(St)

\* A confirmed delete_current_note has returned: directly, or through the
\* prompt of create_new_note.
ConfirmedDeleteDone ==
    lastOp.op = "delete_current_note" /\ (lastOp.ok \/ lastOp.text # "")

\* C1: when switch_note runs while an existing note A is open, A is saved
\* before the other note is loaded: after the step the content of A, in
\* memory and in the file, is the Markdown the editor held before the
\* step (its plain text in Source mode, the recovered source in Rendered
\* mode), whether or not a debounced save was pending, and the note that
\* is current afterwards exists.
SwitchSavesBeforeLoad ==
    [][(lastOp'.op = "switch_note" /\ HasNote(data, current_note_id))
           => /\ HasNote(data', current_note_id)
              /\ data'.notes[current_note_id].content = CurrentMarkdown
              /\ HasNote(file', current_note_id)
              /\ file'.notes[current_note_id].content = CurrentMarkdown
              /\ HasNote(data', current_note_id')]_vars

\* A switch away from an edited note whose debounced save was pending: the
\* note left behind was written (the file still names it as the last
\* note) and holds the edited text.
SwitchedWithPendingSave ==
    /\ lastOp.op = "switch_note"
    /\ timer_active
    /\ file.last # current_note_id
    /\ HasNote(data, file.last)
    /\ data.notes[file.last].content # EmptyText
    /\ data.notes[file.last].modified = MaxClock
    /\ file.notes[file.last] = data.notes[file.last]

\* C2 (as stated): once the window is closed, the file holds the Markdown
\* of the editor as the content of the open note.
CloseSavesOpenNote ==
    (pc = "closed" /\ HasNote(data, current_note_id))
        => /\ HasNote(file, current_note_id)
           /\ file.notes[current_note_id].content = CurrentMarkdown

\* C3: within a burst of content changes, each made while the timer of
\* the one before was running, and with nothing but time and the timer
\* after it: nothing is saved while less than the full delay has passed
\* since the last change or while the timer runs, and once the timer has
\* stopped perform_save has run exactly once, writing the file exactly
\* once when a note is open.
DebounceCoalesces ==
    burst > 0
        => /\ fires <= 1
           /\ writes <= 1
           /\ (sinceEdit < SaveInterval
                   => timer_active /\ fires = 0 /\ writes = 0)
           /\ (timer_active => fires = 0 /\ writes = 0)
           /\ (~timer_active
                   => /\ fires = 1
                      /\ (HasNote(data, current_note_id) => writes = 1))

\* A burst of several changes was saved by one firing and one write.
DebounceBurstSaved ==
    /\ burst = MaxBurst
    /\ sinceEdit = SaveInterval
    /\ ~timer_active
    /\ fires = 1
    /\ writes = 1

\* C4 (as stated): after switch_note or a confirmed delete_current_note
\* no deferred save is pending.
ExplicitSaveCancelsTimer ==
    (lastOp.op \in {"switch_note", "delete_prompt"} \/ ConfirmedDeleteDone)
        => ~timer_active

\* C5 (as stated): last_note_id, where set, names an existing note, in
\* the store in memory and in the file.
LastNoteIdValid ==
    /\ data.last # NoId => HasNote(data, data.last)
    /\ file.last # NoId => HasNote(file, file.last)

\* C6: the editor holds a rendered document only in Rendered mode, and
\* every step that gives a note a content gives a new note the empty
\* text and the current note the Markdown of the editor (the plain text
\* in Source mode, the recovered source in Rendered mode); the content of
\* a note in the file is one it had or has in memory.
ContentIsMarkdownSource ==
    /\ [](editor.rich => is_markdown_mode)
    /\ [][/\ \A n \in DOMAIN data'.notes :
                \/ HasNote(data, n)
                       /\ data'.notes[n].content = data.notes[n].content
                \/ ~HasNote(data, n) /\ data'.notes[n].content = EmptyText
                \/ n = current_note_id
                       /\ data'.notes[n].content = CurrentMarkdown
          /\ \A n \in DOMAIN file'.notes :
                \/ HasNote(file, n)
                       /\ file'.notes[n].content = file.notes[n].content
                \/ HasNote(data', n)
                       /\ file'.notes[n].content = data'.notes[n].content]_vars

\* The timer saved a rendered note: what was stored is the recovered
\* source with its fences, not the text of the rendered document.
RenderedNoteSaved ==
    /\ lastOp.op = "timeout"
    /\ is_markdown_mode
    /\ editor.rich
    /\ HasNote(file, current_note_id)
    /\ file.notes[current_note_id].content = CurrentMarkdown
    /\ file.notes[current_note_id].content # ToPlainText(editor)
    /\ file.notes[current_note_id].modified = MaxClock

\* C7 (as stated): a confirmed delete_current_note leaves the deleted id
\* out of notes and an existing note open.
DeleteLeavesNoteOpen ==
    [][(lastOp'.op = "delete_current_note" /\ (lastOp'.ok \/ lastOp'.text # ""))
           => /\ ~HasNote(data', current_note_id)
              /\ HasNote(data', current_note_id')]_vars

\* C8: rename_current_note leaves the note ids, their order,
\* last_note_id, the content, created and modified of every note, the
\* titles of the other notes, the current note, the mode, the editor, the
\* cached source, the snapshots and the timer as they were; with an
\* accepted non-blank title the current note gets the trimmed title and
\* the store is written, otherwise nothing changes at all.
RenameChangesOnlyTitle ==
    [][lastOp'.op = "rename_current_note"
           => LET effective == /\ HasNote(data, current_note_id)
                               /\ lastOp'.ok
                               /\ StrStrip(lastOp'.text) # ""
              IN  /\ DOMAIN data'.notes = DOMAIN data.notes
                  /\ data'.order = data.order
                  /\ data'.last = data.last
                  /\ \A n \in DOMAIN data.notes :
                        /\ data'.notes[n].content = data.notes[n].content
                        /\ data'.notes[n].created = data.notes[n].created
                        /\ data'.notes[n].modified = data.notes[n].modified
                        /\ n # current_note_id
                               => data'.notes[n].title = data.notes[n].title
                  /\ UNCHANGED <<current_note_id, is_markdown_mode,
                                 markdown_source, editor, original_code_blocks,
                                 original_empty_lines, timer_active,
                                 timer_remaining, clock>>
                  /\ IF effective
                     THEN /\ data'.notes[current_note_id].title
                                = StrStrip(lastOp'.text)
                          /\ file' = data'
                     ELSE UNCHANGED progVars]_vars

\* A rendered note, last modified earlier, was renamed to a trimmed title.
RenamedRenderedNote ==
    /\ lastOp.op = "rename_current_note"
    /\ lastOp.ok
    /\ lastOp.text = " U "
    /\ HasNote(data, current_note_id)
    /\ data.notes[current_note_id].title = "U"
    /\ data.notes[current_note_id].modified < clock
    /\ is_markdown_mode
    /\ editor.rich

\* C9: create_new_note with an accepted non-blank title adds one record
\* under an id that was not in notes, with empty content and the trimmed
\* title, leaves the other records as they were, makes the new note
\* current, and ends in Source mode with an empty editor and the store
\* written; with a cancelled prompt or a blank title the store, the
\* file, the current note and the mode stay as they were.
CreateAddsOneEmptyNote ==
    [][(\/ lastOp'.op = "create_new_note"
        \/ pc = "create_prompt" /\ lastOp'.op = "delete_current_note")
           => IF lastOp'.ok /\ StrStrip(lastOp'.text) # ""
              THEN \E n \in NoteIds \ DOMAIN data.notes :
                     /\ DOMAIN data'.notes = DOMAIN data.notes \cup {n}
                     /\ data'.notes[n].title = StrStrip(lastOp'.text)
                     /\ data'.notes[n].content = EmptyText
                     /\ \A m \in DOMAIN data.notes :
                           data'.notes[m] = data.notes[m]
                     /\ current_note_id' = n
                     /\ data'.last = n
                     /\ ~is_markdown_mode'
                     /\ editor' = PlainDoc(EmptyText)
                     /\ file' = data'
              ELSE UNCHANGED <<data, file, current_note_id, is_markdown_mode,
                               editor>>]_vars

\* A second note was created next to an existing one while a deferred
\* save was pending and the snapshots of a rendered session were held.
CreatedSecondNote ==
    /\ lastOp.op = "create_new_note"
    /\ lastOp.ok
    /\ StrStrip(lastOp.text) # ""
    /\ Cardinality(DOMAIN data.notes) = 2
    /\ HasNote(data, current_note_id)
    /\ data.notes[current_note_id].content = EmptyText
    /\ ~is_markdown_mode
    /\ timer_active
    /\ original_code_blocks # << >>

\* C10 (as stated): in Source mode both snapshot lists are empty.
SnapshotsEmptyInSource ==
    ~is_markdown_mode
        => original_code_blocks = << >> /\ original_empty_lines = << >>

\* C10 (amended): a step from Source to Rendered mode sets the snapshots
\* to the code blocks and the blank-line positions of the text the
\* editor held; every other step, the way back to Source mode and the
\* loading of a note included, leaves them as they are.
SnapshotsCapturedOnEntryOnly ==
    [][IF ~is_markdown_mode /\ is_markdown_mode'
       THEN /\ original_code_blocks' = FindCodeBlocks(ToPlainText(editor))
            /\ original_empty_lines' = EmptyLines(ToPlainText(editor))
       ELSE UNCHANGED <<original_code_blocks, original_empty_lines>>]_vars

\* Back in Source mode by the toggle, the snapshots of the rendered
\* session are still held.
SnapshotsKeptInSource ==
    /\ lastOp.op = "render_markdown"
    /\ ~is_markdown_mode
    /\ original_code_blocks # << >>
    /\ original_empty_lines # << >>

\* The positions of the fence lines of a text, in order.
FenceIndices(lines) == SortedSeq({i \in 1..Len(lines) : IsFence(lines[i])})

\* The closed fenced blocks of a text in document order: the fences pair
\* up two by two.
ClosedBlocks(lines) ==
    LET F == FenceIndices(lines)
    IN  [k \in 1..(Len(F) \div 2) |-> [open |-> F[2 * k - 1], close |-> F[2 * k]]]

\* What the loop owes for line i of the draft: at the closing fence of the
\* k-th closed block the k-th snapshot entry, or the lines of the block
\* with their fences when there is no k-th entry; nothing for the other
\* lines of a block and for what follows a fence never closed; the
\* rewritten line elsewhere.
LoopOwes(md, blocks, i) ==
    LET closed == ClosedBlocks(md)
        F == FenceIndices(md)
        inside == {k \in 1..Len(closed) : closed[k].open <= i /\ i <= closed[k].close}
    IN  IF inside # {}
        THEN LET k == CHOOSE j \in inside : TRUE
             IN  IF i # closed[k].close THEN << >>
                 ELSE IF k <= Len(blocks) THEN blocks[k]
                 ELSE SubSeq(md, closed[k].open, closed[k].close)
        ELSE IF Len(F) % 2 = 1 /\ i >= F[Len(F)] THEN << >>
        ELSE ProcessLine(md[i])

\* C11: after the line loop the k-th closed fenced block of the draft
\* stands in the output as the k-th snapshot entry when there is one and
\* as its own lines between its fences otherwise, every entry being used
\* in order and at most once; lines outside blocks follow in their
\* places.
SnapshotsReplaceBlocksInOrder ==
    (locals.fn = "get_markdown_from_rendered" /\ pc # "draft")
        => locals.new_lines
              = Flatten([i \in 1..Len(locals.md) |->
                            LoopOwes(locals.md, original_code_blocks, i)])

\* A draft with two closed blocks met one snapshot entry: the first block
\* came back as the entry, the second as converted.
SecondBlockFellBack ==
    /\ locals.fn = "get_markdown_from_rendered"
    /\ pc = "looped"
    /\ Len(ClosedBlocks(locals.md)) = 2
    /\ Len(original_code_blocks) = 1
    /\ locals.new_lines = original_code_blocks[1] \o <<FenceMark, FenceMark>>

\* C12: the fenced blocks of the text the blank-line pass returns are the
\* fenced blocks of the text it was given, line for line and in the same
\* order, blank lines inside them included; so when a single snapshot
\* entry met a single closed block of the draft, the one block of the
\* recovered text is that entry, fences included.
BlankLinePassKeepsBlocks ==
    (locals.fn = "get_markdown_from_rendered" /\ pc = "recovered")
        => /\ FindCodeBlocks(locals.result) = FindCodeBlocks(locals.new_lines)
           /\ (Len(original_code_blocks) = 1 /\ Len(ClosedBlocks(locals.md)) = 1)
                  => FindCodeBlocks(locals.result) = original_code_blocks

\* The pass removed blank lines around a block that holds a blank line
\* of its own, and put blank lines back from the snapshot.
BlockWithBlankLineKept ==
    /\ locals.fn = "get_markdown_from_rendered"
    /\ pc = "recovered"
    /\ original_empty_lines # << >>
    /\ FindCodeBlocks(locals.result) = <<<<FenceMark, "a", "", FenceMark>>>>
    /\ Len(locals.new_lines) = 6
    /\ locals.new_lines[1] = "a"
    /\ locals.new_lines[2] = ""
    /\ locals.result # locals.new_lines

\* The toggle takes the controller from Rendered back to Source mode.
RecoverStep ==
    lastOp'.op = "render_markdown" /\ is_markdown_mode /\ ~is_markdown_mode'

\* C13 (as stated): a cycle of render and recover without edits returns
\* a text whose blank lines are at the line indices of the blank lines of
\* the source the cycle started from.
BlankLinesPreserved ==
    [][RecoverStep
          => EmptyLines(markdown_source') = EmptyLines(markdown_source)]_vars

\* A source built from the managed constructs only: checklist lines, at
\* most one fenced block (closed, indented lines only inside it), at most
\* one blockquote line, paragraphs and the blockquote set off by blank
\* lines, no blank line at either end.
ManagedSource(lines) ==
    LET n == Len(lines)
        F == FenceIndices(lines)
        inBlock(i) == Len(F) = 2 /\ F[1] < i /\ i < F[2]
        setOff(i) == /\ (i > 1 => IsBlank(lines[i - 1]) \/ IsFence(lines[i - 1]))
                     /\ (i < n => IsBlank(lines[i + 1]) \/ IsFence(lines[i + 1]))
    IN  /\ ~IsBlank(lines[1])
        /\ ~IsBlank(lines[n])
        /\ Len(F) \in {0, 2}
        /\ Cardinality({i \in 1..n : lines[i] = QuoteLine /\ ~inBlock(i)}) <= 1
        /\ \A i \in 1..n :
              \/ inBlock(i)
              \/ IsFence(lines[i])
              \/ IsBlank(lines[i])
              \/ lines[i] \in {CheckedItem, UncheckedItem}
              \/ lines[i] \in {"a", QuoteLine} /\ setOff(i)

\* C14 (as stated): toggling a managed source to Rendered mode and back
\* without edits returns the source.
RoundTripReturnsSource ==
    [][(RecoverStep /\ ManagedSource(markdown_source))
          => markdown_source' = markdown_source]_vars

\* The line is a checklist line.
IsChecklistLine(line) == line \in {CheckedItem, UncheckedItem}

\* C15 (as stated): the checklist lines of a source without code blocks
\* come back from a cycle of render and recover as they were, checked
\* ones checked and unchecked ones unchecked.
CheckboxStateReturns ==
    [][(RecoverStep /\ FenceIndices(markdown_source) = << >>)
          => SelectSeq(markdown_source', IsChecklistLine)
                = SelectSeq(markdown_source, IsChecklistLine)]_vars


\* The places of the lines of the store: note id and line number.
LinePlaces(store) ==
    UNION {{<<id, i>> : i \in 1..Len(store.notes[id].content)} :
              id \in DOMAIN store.notes}

LineAt(store, place) == store.notes[place[1]].content[place[2]]

\* The annotation at index i is the first of the line with that word and a
\* date-shaped argument.
IsFirstDated(line, word, i) ==
    /\ i \in 1..Len(line.anns)
    /\ line.anns[i].word = word
    /\ line.anns[i].arg.digits
    /\ \A j \in 1..(i - 1) :
           ~(line.anns[j].word = word /\ line.anns[j].arg.digits)

\* The entries of the index under a date with the given tag.
IndexedUnder(task_dates, date_str, is_due) ==
    IF date_str \in DOMAIN task_dates
    THEN {k \in 1..Len(task_dates[date_str]) :
             task_dates[date_str][k].is_due = is_due}
    ELSE {}

WordOf(is_due) == IF is_due THEN "due" ELSE "start"

\* C16 (as amended): after update_calendar_marks, under every date and for
\* each tag the index holds as many entries as there are lines that start
\* with a checklist marker and whose first date-shaped annotation of that
\* kind carries the date; every entry carries the title of the note of such
\* a line and its text without marker and annotations; a line without marker
\* and a second annotation of the same kind add nothing.
FirstAnnotationsIndexed ==
    pc # "calendar_hidden" =>
        /\ \A date_str \in AnnotationArgs : \A is_due \in BOOLEAN :
               LET from == {place \in LinePlaces(data) :
                               /\ StartsWithMarker(LineAt(data, place))
                               /\ \E i \in 1..MaxAnnotations :
                                      /\ IsFirstDated(LineAt(data, place),
                                                      WordOf(is_due), i)
                                      /\ LineAt(data, place).anns[i].arg
                                             = date_str}
               IN  /\ Cardinality(IndexedUnder(locals.task_dates, date_str,
                                               is_due))
                          = Cardinality(from)
                   /\ \A k \in IndexedUnder(locals.task_dates, date_str,
                                            is_due) :
                          \E place \in from :
                              LET entry == locals.task_dates[date_str][k]
                              IN  /\ entry.note_title
                                         = data.notes[place[1]].title
                                  /\ entry.task_name.text
                                         = LineAt(data, place).text
                                  /\ entry.task_name.lead = ""
                                  /\ entry.task_name.anns = << >>
        /\ DOMAIN locals.task_dates \subseteq AnnotationArgs
        /\ \A date_str \in DOMAIN locals.task_dates :
               Len(locals.task_dates[date_str]) >= 1

\* C16 witness: the line of the first note has a marker, a due date and a
\* start date, and the index holds its two entries.
LineWithBothIndexed ==
    /\ pc = "calendar_shown"
    /\ DOMAIN data.notes = {1}
    /\ data.notes[1].content[1].lead = "- [ ]"
    /\ data.notes[1].content[1].anns
           = <<Annotation("due", DateArg(2024, 3, 1)),
               Annotation("start", DateArg(2024, 2, 29))>>
    /\ DOMAIN locals.task_dates = {DateArg(2024, 3, 1), DateArg(2024, 2, 29)}
    /\ Len(locals.task_dates[DateArg(2024, 3, 1)]) = 1
    /\ locals.task_dates[DateArg(2024, 3, 1)][1].is_due
    /\ Len(locals.task_dates[DateArg(2024, 2, 29)]) = 1
    /\ ~locals.task_dates[DateArg(2024, 2, 29)][1].is_due

\* C16 as stated: every date-shaped due or start annotation of a line with
\* a marker has an entry of its own under its date.
EveryAnnotationIndexed ==
    pc # "calendar_hidden" =>
        \A date_str \in AnnotationArgs : \A is_due \in BOOLEAN :
            Cardinality(IndexedUnder(locals.task_dates, date_str, is_due))
                = Cardinality(
                      {pi \in LinePlaces(data) \X (1..MaxAnnotations) :
                          LET line == LineAt(data, pi[1])
                          IN  /\ StartsWithMarker(line)
                              /\ pi[2] \in 1..Len(line.anns)
                              /\ line.anns[pi[2]].word = WordOf(is_due)
                              /\ line.anns[pi[2]].arg.digits
                              /\ line.anns[pi[2]].arg = date_str})


\* C17 (as amended): after update_calendar_marks every date that carries a
\* format on the calendar is a valid calendar date, and the dates that carry
\* one are exactly the valid ones among the keys of task_dates; a date of
\* the right shape that the calendar does not have is a key of task_dates
\* and carries no format.
OnlyValidDatesMarked ==
    pc # "calendar_hidden" =>
        /\ \A date_str \in DOMAIN locals.formats : QDateIsValid(date_str)
        /\ \A date_str \in AnnotationArgs :
               date_str \in DOMAIN locals.formats
                   <=> /\ date_str \in DOMAIN locals.task_dates
                       /\ date_str \in {DateArg(2024, 2, 29),
                                        DateArg(2024, 3, 1)}
        /\ \A date_str \in DOMAIN locals.formats :
               locals.formats[date_str]
                   = IF /\ IndexedUnder(locals.task_dates, date_str, TRUE) # {}
                        /\ IndexedUnder(locals.task_dates, date_str, FALSE) # {}
                     THEN "both_format"
                     ELSE IF IndexedUnder(locals.task_dates, date_str, TRUE)
                                 # {}
                          THEN "due_format" ELSE "start_format"

\* C17 witness: a task due on the 30th of February and starting on the
\* first of March has been indexed: both dates are keys of task_dates, only
\* the first of March carries a format.
InvalidDateIndexedNotMarked ==
    /\ pc = "calendar_shown"
    /\ DOMAIN data.notes = {1}
    /\ StartsWithMarker(data.notes[1].content[1])
    /\ data.notes[1].content[1].anns
           = <<Annotation("due", DateArg(2024, 2, 30)),
               Annotation("start", DateArg(2024, 3, 1))>>
    /\ DOMAIN locals.task_dates = {DateArg(2024, 2, 30), DateArg(2024, 3, 1)}
    /\ DOMAIN locals.formats = {DateArg(2024, 3, 1)}

\* C17 as stated: every key of task_dates is a valid calendar date.
IndexKeysAreValidDates ==
    pc # "calendar_hidden" =>
        \A date_str \in DOMAIN locals.task_dates : QDateIsValid(date_str)


\* What the index records under a date, and what the query answers, as sets
\* of title, task text and tag.
RecordedUnder(task_dates, date_str) ==
    IF date_str \in DOMAIN task_dates
    THEN {task_dates[date_str][k] : k \in 1..Len(task_dates[date_str])}
    ELSE {}

AnsweredBy(tasks) ==
    {[note_title |-> tasks[k].note_title, task_name |-> tasks[k].task_name,
      is_due |-> TRUE] : k \in {j \in 1..Len(tasks) : tasks[j].is_due}}
    \cup
    {[note_title |-> tasks[k].note_title, task_name |-> tasks[k].task_name,
      is_due |-> FALSE] : k \in {j \in 1..Len(tasks) : tasks[j].is_start}}

\* C18: show_tasks_for_date answers for a date exactly the tasks the index
\* of update_calendar_marks records under it, with the same tags, and the
\* date carries a format on the calendar exactly if the answer has a task.
QueryAgreesWithIndex ==
    pc = "date_selected" =>
        /\ AnsweredBy(locals.tasks)
               = RecordedUnder(locals.task_dates, locals.date_str)
        /\ locals.date_str \in DOMAIN locals.formats
               <=> Len(locals.tasks) >= 1

\* C18 witness of the divergence: the only task has two due dates; its
\* second date carries no format, and the query for it answers the task.
SecondDueShownNotMarked ==
    /\ pc = "date_selected"
    /\ DOMAIN data.notes = {1}
    /\ data.notes[1].content[1].lead = "- [ ]"
    /\ data.notes[1].content[1].anns
           = <<Annotation("due", DateArg(2024, 3, 1)),
               Annotation("due", DateArg(2024, 2, 29))>>
    /\ locals.date_str = DateArg(2024, 2, 29)
    /\ locals.date_str \notin DOMAIN locals.formats
    /\ Len(locals.tasks) = 1
    /\ locals.tasks[1].is_due


\* The items of an object of the old format that have something left after
\* trimming: strings with a line that is not blank.
KeptEntries(entries) ==
    {i \in 1..Len(entries) :
        /\ entries[i].json_type = "string"
        /\ \E k \in 1..Len(entries[i].text) : ~IsBlank(entries[i].text[k])}

\* The file holds an object of the old format whose values are strings or
\* null: the migration runs to its end.
MigrationRuns(disk) ==
    /\ disk.exists /\ disk.readable /\ disk.parses
    /\ disk.json.type = "object"
    /\ ~(disk.json.has_notes /\ disk.json.has_settings)
    /\ \A i \in 1..Len(disk.json.entries) :
           disk.json.entries[i].json_type \in {"string", "null"}

\* C19: when the migration runs to its end, the new store has one note per
\* item whose content is not blank, in the order of the items; the note has
\* the title made from the date, the content without the marker prefix and
\* the date as both time stamps; last_note_id is the id of the note of the
\* last such item, and is absent when there is none.
MigrationOneNotePerEntry ==
    (pc = "loaded" /\ MigrationRuns(locals.disk)) =>
        LET entries == locals.disk.json.entries
            kept == KeptEntries(entries)
            new_data == locals.returned.store
        IN  /\ locals.returned.notes_map /\ locals.returned.settings_map
            /\ Len(new_data.order) = Cardinality(kept)
            /\ DOMAIN new_data.notes
                   = {new_data.order[n] : n \in 1..Len(new_data.order)}
            /\ Cardinality(DOMAIN new_data.notes) = Cardinality(kept)
            /\ \A i \in kept :
                   LET n == Cardinality({j \in kept : j <= i})
                       note == new_data.notes[new_data.order[n]]
                   IN  /\ note.title = LegacyTitle(entries[i].date_str)
                       /\ note.created = entries[i].date_str
                       /\ note.modified = entries[i].date_str
                       /\ Len(note.content) = Len(entries[i].text)
                       /\ \A k \in 2..Len(note.content) :
                              note.content[k] = entries[i].text[k]
                       /\ note.content[1]
                              = CASE entries[i].text[1] = "MARKDOWN_SOURCE:"
                                         -> ""
                                  [] entries[i].text[1] = "MARKDOWN_SOURCE:a"
                                         -> "a"
                                  [] OTHER -> entries[i].text[1]
            /\ IF kept = {} THEN new_data.last = NoId
               ELSE new_data.last = new_data.order[Len(new_data.order)]

\* C19 witness: two items were migrated, the first with the marker prefix;
\* the second note is the last one.
TwoEntriesMigrated ==
    /\ pc = "loaded"
    /\ MigrationRuns(locals.disk)
    /\ Len(locals.disk.json.entries) = 2
    /\ locals.disk.json.entries[1].text = <<"MARKDOWN_SOURCE:a">>
    /\ locals.disk.json.entries[2].text = <<"", "a">>
    /\ Len(locals.returned.store.order) = 2
    /\ locals.returned.store.notes[locals.returned.store.order[1]].content
           = <<"a">>
    /\ locals.returned.store.last = locals.returned.store.order[2]


\* C20: whatever the disk holds, what load_data returns is an object with a
\* map of notes and a map of settings; it is the empty store when there is
\* no file, when the file cannot be opened or parsed and when the migration
\* fails, and it is the value of the file when that has both keys.
LoadedStoreHasBothMaps ==
    pc = "loaded" =>
        /\ locals.returned.type = "object"
        /\ locals.returned.notes_map
        /\ locals.returned.settings_map
        /\ (~locals.disk.exists \/ ~locals.disk.readable
               \/ ~locals.disk.parses)
               => locals.returned = EmptyStoreValue
        /\ (/\ locals.disk.exists /\ locals.disk.readable
            /\ locals.disk.parses
            /\ locals.disk.json.type = "object"
            /\ locals.disk.json.has_notes /\ locals.disk.json.has_settings)
               => locals.returned = locals.disk.json

\* C20 witness of the divergence: the file holds an object with both keys
\* whose notes are no map, and load_data has returned it.
NotesNoMapReturned ==
    /\ pc = "loaded"
    /\ locals.disk.exists /\ locals.disk.readable /\ locals.disk.parses
    /\ locals.disk.json.type = "object"
    /\ locals.disk.json.has_notes /\ locals.disk.json.has_settings
    /\ ~locals.disk.json.notes_map
    /\ locals.returned = locals.disk.json


\* The handler that ran last changed the content of the editor.
ContentJustChanged == burst > 0 /\ lastOp.op \notin {"tick", "timeout"}

\* save_timer.timeout was the last thing that happened: the timer has
\* stopped, and the file holds the Markdown of the editor for the note that
\* is open, when one is.
DeferredSaveDone ==
    /\ lastOp.op = "timeout"
    /\ ~timer_active
    /\ HasNote(data, current_note_id)
           => file.notes[current_note_id].content = CurrentMarkdown

\* C21: a content change leaves the timer running; the timer is started by
\* nothing but a content change and a time-out stops it, so it fires at
\* most once after the last change; and while the timer runs, unless the content changes again or
\* the window is closed, the time-out comes and perform_save has stored the
\* Markdown of the editor in the file for the open note.
DeferredSaveEventuallyRuns ==
    /\ [](ContentJustChanged => timer_active)
    /\ [][(~timer_active /\ timer_active')
             => (burst' > 0 /\ lastOp'.op \notin {"tick", "timeout"})]_vars
    /\ [](lastOp.op = "timeout" => DeferredSaveDone)
    /\ [](fires <= 1)
    /\ (timer_active /\ pc # "closed")
           ~> (DeferredSaveDone \/ pc = "closed" \/ ContentJustChanged)

\* C21 witness: the note was edited in Rendered mode, the delay passed and
\* the time-out stored the recovered Markdown.
DeferredSaveRanRendered ==
    /\ DeferredSaveDone
    /\ is_markdown_mode
    /\ burst > 0
    /\ sinceEdit = SaveInterval
    /\ HasNote(data, current_note_id)
    /\ file.notes[current_note_id].content = CurrentMarkdown


\* C22 (as stated): when switch_note has returned, the file names the note
\* that is now open as the last one, so that load_last_note on this file
\* would open it.
SwitchPersistsLastNote ==
    lastOp.op = "switch_note" => file.last = current_note_id

\* C22 witness of the divergence: switch_note has opened a note, the store
\* in memory names it as the last one, and the file names another note
\* that exists, which a restart would open.
SwitchedFileNamesOldNote ==
    /\ lastOp.op = "switch_note"
    /\ data.last = current_note_id
    /\ file.last # current_note_id
    /\ HasNote(file, file.last)
    /\ HasNote(file, current_note_id)


\* C23: the restoration of a collapsed text without blank lines ends, and
\* with a snapshot that is not empty its output holds the lines of the
\* text in their order, has a blank line at exactly the places (counted
\* from 0) the snapshot names, and ends only where the snapshot does not
\* name the next place, so that indices right after the last content line
\* give trailing blank lines; with an empty snapshot the output is the text.
RestoredBlankAtSnapshot ==
    pc = "restored" =>
        LET R == locals.restored_lines
            L == locals.lines
            S == original_empty_lines
        IN  IF S = << >> THEN R = L
            ELSE /\ SelectSeq(R, LAMBDA l : l # "") = L
                 /\ \A i \in 1..Len(R) : (R[i] = "") <=> InSeq(i - 1, S)
                 /\ ~InSeq(Len(R), S)

\* C23 witness: the snapshot names the places 0 and 2 and the text has one
\* line: a blank line was put before it and one after it.
TrailingBlankRestored ==
    /\ pc = "restored"
    /\ original_empty_lines = <<0, 2>>
    /\ locals.lines = <<"a">>
    /\ locals.restored_lines = <<"", "a", "">>


\* C24 (as stated): outside a fenced block a line with one to four leading
\* spaces before text that starts no list item loses its leading spaces; a
\* line with leading spaces, however many, before a list item is left as it
\* is, and so is every line inside a fenced block.
IndentStripKeepsListLines ==
    pc = "indent_done" =>
        LET line == locals.line
        IN  /\ locals.in_code_block => locals.processed_line = line
            /\ (/\ ~locals.in_code_block
                /\ line.indent \in 1..4
                /\ line.rest # ""
                /\ ~StartsListItem(line.rest))
                   => locals.processed_line = IndentedLine(0, line.rest)
            /\ (/\ ~locals.in_code_block
                /\ line.indent >= 1
                /\ StartsListItem(line.rest))
                   => locals.processed_line = line

\* C24 witness of the divergence: a list item with two leading spaces,
\* outside a fenced block, has lost them.
NestedItemLostIndent ==
    /\ pc = "indent_done"
    /\ ~locals.in_code_block
    /\ locals.line = IndentedLine(2, "- a")
    /\ locals.processed_line = IndentedLine(0, "- a")


RECURSIVE TagsWellFormed(_, _, _)
\* From position i on, with inside telling whether a span is open, the
\* text is made of characters, opening tags outside a span and closing
\* tags inside one, and ends outside a span.
TagsWellFormed(md, i, inside) ==
    IF i > Len(md) THEN ~inside
    ELSE IF OccursAt(OpenTag, md, i)
         THEN ~inside /\ TagsWellFormed(md, i + Len(OpenTag), TRUE)
    ELSE IF OccursAt(CloseTag, md, i)
         THEN inside /\ TagsWellFormed(md, i + Len(CloseTag), FALSE)
    ELSE md[i] \in MdChars /\ TagsWellFormed(md, i + 1, inside)

RECURSIVE WithoutTags(_, _)
\* The text with its opening and closing tags taken out.
WithoutTags(md, i) ==
    IF i > Len(md) THEN << >>
    ELSE IF OccursAt(OpenTag, md, i) THEN WithoutTags(md, i + Len(OpenTag))
    ELSE IF OccursAt(CloseTag, md, i) THEN WithoutTags(md, i + Len(CloseTag))
    ELSE <<md[i]>> \o WithoutTags(md, i + 1)

\* C25 (as stated): after the underline step the draft is the draft it
\* started from with spans put around texts: no span lies inside another,
\* no tag is split, and without the tags the text is what it was.
UnderlineSpansWellFormed ==
    pc = "underlined" =>
        /\ TagsWellFormed(locals.wrapped, 1, FALSE)
        /\ WithoutTags(locals.wrapped, 1) = locals.md

\* C25 witness of the divergence: the texts a and u were underlined in the
\* draft a u; the second text was found inside the opening tag of the
\* first span and wrapped there.
TagSplitByUnderlinedText ==
    /\ pc = "underlined"
    /\ locals.md = <<"a", "u">>
    /\ locals.underline_texts = << <<"a">>, <<"u">> >>
    /\ locals.wrapped
           = <<"<">> \o Wrapped(<<"u">>) \o <<">", "a">> \o CloseTag
                 \o <<"u">>


\* C26 (as stated): when create_new_note has made a note while a note was
\* open, the store holds for the note that was open the Markdown its editor
\* showed when the new note was made.
CreateKeepsOpenNoteEdits ==
    [][(/\ lastOp'.op = "create_new_note"
        /\ current_note_id' # current_note_id
        /\ HasNote(data, current_note_id))
           => data'.notes[current_note_id].content = CurrentMarkdown]_vars

\* C26 witness of the divergence: a second note was made while the timer
\* of a content change of the first was running; the timer still runs, and
\* its time-out will save the new note.
CreatedWithPendingSave ==
    /\ lastOp.op = "create_new_note"
    /\ lastOp.ok
    /\ StrStrip(lastOp.text) # ""
    /\ timer_active
    /\ Cardinality(DOMAIN data.notes) = 2
    /\ ToPlainText(editor) = EmptyText


\* C27 (as stated): apply_font_size in Rendered mode keeps the document:
\* the Markdown recovered from the editor after it is the Markdown recovered
\* before it, and the snapshots are those of the Markdown the document now
\* shown was rendered from.
FontSizeKeepsDocument ==
    [][(lastOp'.op = "apply_font_size" /\ is_markdown_mode)
           => /\ EditorMarkdown([mode |-> is_markdown_mode',
                                 editor |-> editor',
                                 ocb |-> original_code_blocks',
                                 oel |-> original_empty_lines'])
                     = CurrentMarkdown
              /\ original_code_blocks' = FindCodeBlocks(markdown_source')
              /\ original_empty_lines' = EmptyLines(markdown_source')]_vars


\* The fence that opens a block never closed, 0 when every fence of the
\* draft has a partner.
UnclosedFence(md) ==
    LET F == FenceIndices(md)
    IN  IF Len(F) % 2 = 1 THEN F[Len(F)] ELSE 0

\* What stands for line i of the draft when nothing is dropped: the line
\* itself from an unclosed fence on, and what the loop owes elsewhere.
LoopKeeps(md, blocks, i) ==
    IF UnclosedFence(md) # 0 /\ i >= UnclosedFence(md) THEN <<md[i]>>
    ELSE LoopOwes(md, blocks, i)

NonBlankLines(lines) == SelectSeq(lines, LAMBDA l : ~IsBlank(l))

\* C28 (as stated): the line loop drops no content: the non-blank lines of
\* its output are those that stand for the lines of the draft, line by
\* line, and a fence that is never closed is kept together with all lines
\* after it.
RecoveryDropsNoContent ==
    (locals.fn = "get_markdown_from_rendered" /\ pc # "draft")
        => NonBlankLines(locals.new_lines)
              = NonBlankLines(
                    Flatten([i \in 1..Len(locals.md) |->
                                LoopKeeps(locals.md, original_code_blocks, i)]))

\* C28 witness of the divergence: the draft was a line, a fence and an
\* indented line, the fence never closed; the loop has returned the first
\* line only.
UnclosedFenceDropped ==
    /\ locals.fn = "get_markdown_from_rendered"
    /\ pc = "looped"
    /\ locals.md = <<"a", FenceMark, "  x">>
    /\ locals.new_lines = <<"a">>


\* The step runs perform_save: the time-out of the timer, or switch_note.
SaveStep == lastOp'.op \in {"timeout", "switch_note"}

\* C29: a step that runs perform_save changes content and modified of no
\* note but the one open when it starts, and stores for that one the
\* Markdown of the editor; with no note open, or with the open id no longer
\* in the store, it leaves all notes and the file as they are.  The editor
\* holds what belongs to the open note: whenever another note becomes the
\* open one, the editor is loaded with the content of that note, in Source
\* mode.
SaveWritesOnlyOpenNote ==
    /\ [][SaveStep =>
            /\ DOMAIN data'.notes = DOMAIN data.notes
            /\ \A id \in DOMAIN data.notes :
                   IF id = current_note_id
                   THEN data'.notes[id].content = CurrentMarkdown
                   ELSE /\ data'.notes[id].content = data.notes[id].content
                        /\ data'.notes[id].modified = data.notes[id].modified
            /\ ~HasNote(data, current_note_id)
                   => data'.notes = data.notes /\ file' = file]_vars
    /\ [][(current_note_id' # current_note_id /\ HasNote(data', current_note_id'))
             => /\ editor' = PlainDoc(data'.notes[current_note_id'].content)
                /\ ~is_markdown_mode']_vars

\* C29 witness: with two notes in the store the time-out has saved the open
\* one in Rendered mode, and the other note holds another content.
TimeoutSavedOpenNoteOfTwo ==
    /\ lastOp.op = "timeout"
    /\ writes = 1
    /\ is_markdown_mode
    /\ Cardinality(DOMAIN data.notes) = 2
    /\ HasNote(data, current_note_id)
    /\ data.notes[current_note_id].content = CurrentMarkdown
    /\ \E id \in DOMAIN data.notes :
           /\ id # current_note_id
           /\ data.notes[id].content # data.notes[current_note_id].content


\* The release was consumed by the filter as a click on a checkbox.
ClickConsumed == lastOp'.op = "click" /\ lastOp'.ok

\* The checklist lines of a text that stand outside its fenced blocks, in
\* order.
ChecklistOutsideCode(lines) ==
    LET B == ClosedBlocks(lines)
        inBlock(i) == \E k \in DOMAIN B : B[k].open < i /\ i < B[k].close
        idx == SortedSeq({i \in 1..Len(lines) :
                             ~inBlock(i) /\ IsChecklistLine(lines[i])})
    IN  [k \in 1..Len(idx) |-> lines[idx[k]]]

\* The checklist lines the checkboxes of a document stand for, in order:
\* - [x] for a checked glyph, - [ ] for an unchecked one.
BoxItems(blocks) ==
    LET boxes == SelectSeq(blocks, LAMBDA b :
                     ~b.code /\ b.lines[1] \in {CheckedText, UncheckedText})
    IN  [k \in 1..Len(boxes) |->
            IF boxes[k].lines[1] = CheckedText THEN CheckedItem
            ELSE UncheckedItem]

\* C30: in Rendered mode a release of the left button on a checkbox is
\* consumed; it turns the glyph of that checkbox into the other glyph and
\* leaves it a checkbox, changes no other block, no snapshot, no note and
\* not the mode, and starts the save timer with its full interval; a
\* second release on the same checkbox would put back the document as it
\* was; and the recovery that follows writes - [x] for every checkbox left
\* checked and - [ ] for every one left unchecked, in order.
ClickFlipsOneCheckbox ==
    /\ [][(lastOp'.op = "click" /\ IsCheckbox(editor, lastOp'.block))
             => lastOp'.ok]_vars
    /\ [][ClickConsumed =>
             LET k == lastOp'.block
                 was == editor.blocks[k].lines[1]
                 after == [data |-> data', file |-> file',
                           cur |-> current_note_id', mode |-> is_markdown_mode',
                           src |-> markdown_source', editor |-> editor',
                           ocb |-> original_code_blocks',
                           oel |-> original_empty_lines',
                           tact |-> timer_active', trem |-> timer_remaining',
                           now |-> clock', wr |-> 0, changed |-> FALSE]
             IN  /\ IsCheckbox(editor, k)
                 /\ IsCheckbox(editor', k)
                 /\ was = UncheckedText => editor'.blocks[k].lines[1] = CheckedText
                 /\ was = CheckedText => editor'.blocks[k].lines[1] = UncheckedText
                 /\ Len(editor'.blocks) = Len(editor.blocks)
                 /\ \A j \in DOMAIN editor.blocks \ {k} :
                        editor'.blocks[j] = editor.blocks[j]
                 /\ UNCHANGED <<data, file, current_note_id, is_markdown_mode,
                                markdown_source, original_code_blocks,
                                original_empty_lines>>
                 /\ timer_active' /\ timer_remaining' = SaveInterval
                 /\ EventFilter(after, k).editor = editor]_vars
    /\ [][RecoverStep
             => ChecklistOutsideCode(markdown_source')
                    = BoxItems(DocBlocks(editor))]_vars

\* A checkbox was checked by a click, and the recovery that followed wrote
\* - [x] for it next to a - [ ] for a checkbox that was not clicked.
ClickedBoxRecoveredChecked ==
    /\ lastOp.op = "render_markdown"
    /\ ~is_markdown_mode
    /\ \E i, j \in DOMAIN markdown_source :
           /\ markdown_source[i] = CheckedItem
           /\ markdown_source[j] = UncheckedItem
    /\ FenceIndices(markdown_source) = << >>

====
